---- MODULE Spec2Model ----
(***************************************************************************)
(* A model of the Doppler MCP server: the DopplerClient (one method per    *)
(* remote operation), the tool catalogs and the callTool dispatchers of    *)
(* the server variants (v0.1 index.ts, simplified, unified, enhanced),     *)
(* against a remote secret store that answers each HTTP request.           *)
(*                                                                         *)
(* A JavaScript async function runs without interruption up to its next    *)
(* await.  A method or handler is therefore written as a step function of  *)
(* the answered requests of the call so far: it yields the next HTTP       *)
(* request to issue, the value it returns, or the error it throws.         *)
(***************************************************************************)
EXTENDS Naturals, Sequences, FiniteSets, TLC

VARIABLES
  variant,             \* which entry point is running: a server, or the bare client
  enableIntelligence,  \* UnifiedDopplerMCPServer.enableIntelligence
  store,               \* the remote API's secrets: config -> (name -> value)
  pc,                  \* "idle" | "await" (a request is in flight) | "done"
  call,                \* the call being served: [tool, args]
  inflight,            \* the HTTP request awaiting its answer
  reqs,                \* the answered requests of this call, in order
  out,                 \* what the call hands back: a returned value or a throw
  prev,                \* the outcome of the latest completed setSecret, if it was the last call
  env,                 \* process.env: the environment variables that are set
  proc,                \* the process: its status, exit code, request handlers, transport
  second               \* a second call in flight beside the first: [pc, call, inflight, reqs, out]

vars ==
  <<variant, enableIntelligence, store, pc, call, inflight, reqs, out, prev, env, proc,
    second>>

(***************************************************************************)
(* Bounds and value domains                                                *)
(***************************************************************************)
\* No call of the code issues more than two requests; the cap keeps a retrying
\* variant finite.
MaxAttempts == 3

Project == "p1"
Configs == {"dev", "prd"}
Keys == {"API_KEY", "api_key", "DATABASE_URL"}
KeyOrder == <<"API_KEY", "DATABASE_URL", "api_key">>
Values == {"s3cr3t-value-1", "test"}

\* JavaScript's String.prototype.toLowerCase on the key names of the model.
ToLowerCase(k) == IF k = "API_KEY" THEN "api_key" ELSE k

\* A secrets object: a map from the names it holds to their values.
SecretMaps == UNION {[D -> Values] : D \in SUBSET Keys}

NoReq == [method |-> "none"]
NoCall == [tool |-> "none"]
NoOut == [kind |-> "none"]
NoPrev == [op |-> "none"]
NoSecond == [pc |-> "idle", call |-> NoCall, inflight |-> NoReq, reqs |-> <<>>, out |-> NoOut]

(***************************************************************************)
(* The remote API (the environment): what it answers and what it changes.  *)
(***************************************************************************)
Outcomes == {"2xx", "401", "403", "429", "500", "timeout", "network"}
\* A timeout or a broken connection may hit after the remote applied a write.
MaybeApplied == {"timeout", "network"}

NamesOf(m) == SelectSeq(KeyOrder, LAMBDA k : k \in DOMAIN m)

Upsert(m, s) == [k \in DOMAIN m \cup DOMAIN s |-> IF k \in DOMAIN s THEN s[k] ELSE m[k]]

Remove(m, ks) == [k \in DOMAIN m \ ks |-> m[k]]

Mutating(r) == r.method \in {"POST", "DELETE"} /\ r.path = "/configs/config/secrets"

\* The body of a 2xx answer to request r in remote state st.
RemoteData(r, st) ==
  CASE r.path = "/projects" ->
         [projects |-> <<[id |-> "2", slug |-> "p2", name |-> "P2",
                          description |-> "second project"],
                         [id |-> "1", slug |-> Project, name |-> "P1"]>>]
    [] r.path = "/configs" ->
         [configs |-> <<[name |-> "dev", project |-> Project],
                        [name |-> "prd", project |-> Project]>>]
    [] r.path = "/configs/config/secrets/names" ->
         [names |-> NamesOf(st[r.params.config])]
    [] r.path = "/configs/config/secrets" /\ r.method = "GET" ->
         [secrets |-> [k \in DOMAIN st[r.params.config] |->
                         [raw |-> st[r.params.config][k],
                          computed |-> st[r.params.config][k]]]]
    [] r.path = "/configs/config/secrets" /\ r.method = "POST" ->
         [secrets |-> [k \in DOMAIN r.body.secrets |->
                         [created |-> k \notin DOMAIN st[r.body.config]]]]
    [] r.path = "/configs/config/secrets" /\ r.method = "DELETE" ->
         [success |-> TRUE]
    [] r.path = "/configs/config/secrets/download" ->
         st[r.params.config]
    [] r.path = "/configs/config/tokens" ->
         [token |-> [name |-> r.body.name, key |-> "dp.st.key",
                     access |-> r.body.access]]
    [] r.path = "/logs" ->
         [logs |-> <<[id |-> "log1", text |-> "secret.updated"]>>]
    [] OTHER -> [success |-> TRUE]

\* The remote state after request r was applied.
RemoteEffect(r, st) ==
  IF ~Mutating(r) THEN st
  ELSE IF r.method = "POST"
    THEN [st EXCEPT ![r.body.config] = Upsert(@, r.body.secrets)]
    ELSE [st EXCEPT ![r.body.config] =
            Remove(@, {r.body.secrets[i] : i \in DOMAIN r.body.secrets})]

(***************************************************************************)
(* Steps of an async function                                              *)
(***************************************************************************)
Request(method, path, params, body) ==
  [do |-> "request",
   req |-> [method |-> method, path |-> path, params |-> params, body |-> body]]

Return(v) == [do |-> "return", value |-> v]

Throw(message) == [do |-> "throw", message |-> message]

None == [none |-> TRUE]

\* The body of a failure: error.response.data of a non-2xx answer; a timeout or
\* a broken connection has no response.
RemoteErrorBody(outcome) ==
  CASE outcome = "401" -> [success |-> FALSE, messages |-> <<"Invalid Auth token">>]
    [] outcome = "403" -> [success |-> FALSE, messages |-> <<"Forbidden">>]
    [] outcome = "429" -> [success |-> FALSE, messages |-> <<"Too many requests">>]
    [] outcome = "500" -> [success |-> FALSE, messages |-> <<"Internal error">>]
    [] OTHER -> None

\* axios rejects on a non-2xx status, a timeout and a transport failure.
Rejected(x) == x.outcome # "2xx"


Undefined == [undefined |-> TRUE]

\* `x || fallback` on an optional field of a response body.
FieldOr(d, f, fallback) == IF f \in DOMAIN d THEN d[f] ELSE fallback

(***************************************************************************)
(* DopplerClient: each method is a step function of its arguments a (the   *)
(* parameters that were passed) and the answered requests rs of the call.  *)
(***************************************************************************)
listProjects(a, rs) ==
  IF Len(rs) = 0 THEN Request("GET", "/projects", [per_page |-> 100], None)
  ELSE IF Rejected(rs[1]) THEN Throw(<<"Failed to list projects">>)
  ELSE Return(FieldOr(rs[1].data, "projects", <<>>))

listConfigs(a, rs) ==
  IF Len(rs) = 0
    THEN Request("GET", "/configs", [project |-> a.project, per_page |-> 100], None)
  ELSE IF Rejected(rs[1])
    THEN Throw(<<"Failed to list configs for project ", a.project>>)
  ELSE Return(FieldOr(rs[1].data, "configs", <<>>))

listSecrets(a, rs) ==
  IF Len(rs) = 0
    THEN Request("GET", "/configs/config/secrets/names",
                 [project |-> a.project, config |-> a.config], None)
  ELSE IF Rejected(rs[1])
    THEN Throw(<<"Failed to list secrets for ", a.project, "/", a.config>>)
  ELSE Return(FieldOr(rs[1].data, "names", <<>>))

\* A getSecret that treats a name missing from the answer as a failure.
getSecretStrict(a, rs) ==
  IF Len(rs) = 0
    THEN Request("GET", "/configs/config/secrets",
                 [project |-> a.project, config |-> a.config, name |-> a.name], None)
  ELSE IF Rejected(rs[1]) \/ a.name \notin DOMAIN FieldOr(rs[1].data, "secrets", <<>>)
    THEN Throw(<<"Failed to get secret ", a.name>>)
  ELSE Return([name |-> a.name, value |-> rs[1].data.secrets[a.name]])

getSecret(a, rs) ==
  IF Len(rs) = 0
    THEN Request("GET", "/configs/config/secrets",
                 [project |-> a.project, config |-> a.config, name |-> a.name], None)
  ELSE IF Rejected(rs[1]) THEN Throw(<<"Failed to get secret ", a.name>>)
  ELSE LET secrets == FieldOr(rs[1].data, "secrets", <<>>)
       IN  Return([name |-> a.name,
                   value |-> IF a.name \in DOMAIN secrets THEN secrets[a.name]
                             ELSE Undefined])

\* A client that reports every write as a creation.
CreatedFlagAlways(data, name) == TRUE

\* response.data.secrets?.[name]?.created || false
CreatedFlag(data, name) ==
  /\ "secrets" \in DOMAIN data
  /\ name \in DOMAIN data.secrets
  /\ "created" \in DOMAIN data.secrets[name]
  /\ data.secrets[name].created

setSecret(a, rs) ==
  IF Len(rs) = 0
    THEN Request("POST", "/configs/config/secrets", None,
                 [project |-> a.project, config |-> a.config,
                  secrets |-> (a.name :> a.value)])
  ELSE IF Rejected(rs[1]) THEN Throw(<<"Failed to set secret ", a.name>>)
  ELSE Return([created |-> CreatedFlag(rs[1].data, a.name)])

deleteSecrets(a, rs) ==
  IF Len(rs) = 0
    THEN Request("DELETE", "/configs/config/secrets", None,
                 [project |-> a.project, config |-> a.config, secrets |-> a.secrets])
  ELSE IF Rejected(rs[1]) THEN Throw(<<"Failed to delete secrets">>)
  ELSE Return(Undefined)

\* A membership test that folds case.
IncludesIgnoringCase(list, key) ==
  \E i \in DOMAIN list : ToLowerCase(list[i]) = ToLowerCase(key)

\* Array.prototype.includes: strict equality of strings.
includes(list, key) == \E i \in DOMAIN list : list[i] = key

\* A filter that reads the source config again instead of using what the read
\* step was answered.
secretsToPromoteCurrent(a, sourceSecrets) ==
  LET current == store[a.sourceConfig]
      kept == {k \in DOMAIN current :
                 "excludeKeys" \notin DOMAIN a \/ ~includes(a.excludeKeys, k)}
  IN  [k \in kept |-> current[k]]

\* A filter that keeps every entry of the source, excluded or not.
secretsToPromoteAll(a, sourceSecrets) == sourceSecrets

\* The loop over Object.entries(sourceSecrets): the entries kept for the target.
secretsToPromote(a, sourceSecrets) ==
  LET kept == {k \in DOMAIN sourceSecrets :
                 "excludeKeys" \notin DOMAIN a \/ ~includes(a.excludeKeys, k)}
  IN  [k \in kept |-> sourceSecrets[k]]

\* A promotion that reports its count whatever became of the write.
promoteSecretsIgnoringWrite(a, rs) ==
  IF Len(rs) = 0
    THEN Request("GET", "/configs/config/secrets/download",
                 [project |-> a.project, config |-> a.sourceConfig, format |-> "json"],
                 None)
  ELSE IF Rejected(rs[1]) THEN Throw(<<"Failed to promote secrets">>)
  ELSE LET toPromote == secretsToPromote(a, rs[1].data)
           count == Cardinality(DOMAIN toPromote)
       IN  IF Len(rs) = 1 /\ count > 0
             THEN Request("POST", "/configs/config/secrets", None,
                          [project |-> a.project, config |-> a.targetConfig,
                           secrets |-> toPromote])
           ELSE Return([count |-> count])

\* A promotion that posts to the target whatever the filter kept.
promoteSecretsAlwaysWriting(a, rs) ==
  IF Len(rs) = 0
    THEN Request("GET", "/configs/config/secrets/download",
                 [project |-> a.project, config |-> a.sourceConfig, format |-> "json"],
                 None)
  ELSE IF Rejected(rs[1]) THEN Throw(<<"Failed to promote secrets">>)
  ELSE LET toPromote == secretsToPromote(a, rs[1].data)
           count == Cardinality(DOMAIN toPromote)
       IN  IF Len(rs) = 1
             THEN Request("POST", "/configs/config/secrets", None,
                          [project |-> a.project, config |-> a.targetConfig,
                           secrets |-> toPromote])
           ELSE IF Rejected(rs[2])
             THEN Throw(<<"Failed to promote secrets">>)
           ELSE Return([count |-> count])

promoteSecrets(a, rs) ==
  IF Len(rs) = 0
    THEN Request("GET", "/configs/config/secrets/download",
                 [project |-> a.project, config |-> a.sourceConfig, format |-> "json"],
                 None)
  ELSE IF Rejected(rs[1]) THEN Throw(<<"Failed to promote secrets">>)
  ELSE LET toPromote == secretsToPromote(a, rs[1].data)
           count == Cardinality(DOMAIN toPromote)
       IN  IF Len(rs) = 1 /\ count > 0
             THEN Request("POST", "/configs/config/secrets", None,
                          [project |-> a.project, config |-> a.targetConfig,
                           secrets |-> toPromote])
           ELSE IF Len(rs) > 1 /\ Rejected(rs[2])
             THEN Throw(<<"Failed to promote secrets">>)
           ELSE Return([count |-> count])

\* A default that grants write access.
DefaultAccessReadWrite == "read/write"

\* The default of the `access` parameter.
DefaultAccess == "read"

createServiceToken(a, rs) ==
  IF Len(rs) = 0
    THEN Request("POST", "/configs/config/tokens", None,
                 [project |-> a.project, config |-> a.config, name |-> a.name,
                  access |-> IF "access" \in DOMAIN a THEN a.access ELSE DefaultAccess])
  ELSE IF Rejected(rs[1]) THEN Throw(<<"Failed to create service token">>)
  ELSE Return(FieldOr(rs[1].data, "token", Undefined))

getActivityLogs(a, rs) ==
  IF Len(rs) = 0
    THEN LET page == IF "page" \in DOMAIN a THEN a.page ELSE 1
             perPage == IF "perPage" \in DOMAIN a THEN a.perPage ELSE 20
         IN  Request("GET", "/logs",
                     IF "project" \in DOMAIN a
                       THEN [page |-> page, per_page |-> perPage, project |-> a.project]
                       ELSE [page |-> page, per_page |-> perPage],
                     None)
  ELSE IF Rejected(rs[1]) THEN Throw(<<"Failed to get activity logs">>)
  ELSE Return(FieldOr(rs[1].data, "logs", <<>>))

validateConnection(a, rs) ==
  IF Len(rs) = 0 THEN Request("GET", "/me", None, None)
  ELSE Return(~Rejected(rs[1]))

ClientOps ==
  {"listProjects", "listConfigs", "listSecrets", "getSecret", "setSecret",
   "deleteSecrets", "promoteSecrets", "createServiceToken", "getActivityLogs",
   "validateConnection"}

\* The method `op` of the client, at the point the answers rs have brought it to.
ClientMethod(op, a, rs) ==
  CASE op = "listProjects" -> listProjects(a, rs)
    [] op = "listConfigs" -> listConfigs(a, rs)
    [] op = "listSecrets" -> listSecrets(a, rs)
    [] op = "getSecret" -> getSecret(a, rs)
    [] op = "setSecret" -> setSecret(a, rs)
    [] op = "deleteSecrets" -> deleteSecrets(a, rs)
    [] op = "promoteSecrets" -> promoteSecrets(a, rs)
    [] op = "createServiceToken" -> createServiceToken(a, rs)
    [] op = "getActivityLogs" -> getActivityLogs(a, rs)
    [] op = "validateConnection" -> validateConnection(a, rs)

\* A client whose errors carry the status and the body of the failed answer.
VerbatimClient(op, a, rs) ==
  LET step == ClientMethod(op, a, rs)
  IN  IF step.do = "throw"
        THEN Throw(step.message \o <<": ", rs[Len(rs)].outcome, rs[Len(rs)].data>>)
        ELSE step

\* A client whose response interceptor issues a rate-limited request again
\* (until it is answered otherwise) instead of rejecting.
RetryingClient(op, a, rs) ==
  IF Len(rs) > 0 /\ rs[Len(rs)].outcome = "429"
    THEN [do |-> "request", req |-> rs[Len(rs)].req]
    ELSE ClientMethod(op, a, SelectSeq(rs, LAMBDA x : x.outcome # "429"))

\* A client that, whatever the answer, issues its last request again.
PollingClient(op, a, rs) ==
  LET step == ClientMethod(op, a, rs)
  IN  IF Len(rs) > 0 /\ step.do # "request"
        THEN [do |-> "request", req |-> rs[Len(rs)].req]
        ELSE step

\* The client as its callers see it: the axios instance's response interceptor
\* logs and passes every answer on (a resolve stays a resolve, a reject a reject),
\* so the method sees each answer of each of its requests.
DopplerClient(op, a, rs) == ClientMethod(op, a, rs)

(***************************************************************************)
(* zod schemas.  A schema: the required keys, the optional keys, the       *)
(* defaults and the enumerations.  An arguments object is a function from  *)
(* the keys it holds; NoArgs is `arguments` left out of the request.       *)
(***************************************************************************)
NoArgs == [omitted |-> TRUE]

Omitted(args) == "omitted" \in DOMAIN args

EmptyObject == <<>>

ZObject(req, opt, def, enum) == [req |-> req, opt |-> opt, def |-> def, enum |-> enum]

\* A validation that lets every arguments object pass.
ZodNoIssues(schema, args) == {}

ZodIssues(schema, args) ==
  IF Omitted(args) THEN {<<"Required", "arguments">>}
  ELSE {<<"Required", f>> : f \in schema.req \ DOMAIN args}
       \cup {<<"invalid_enum_value", f>> :
               f \in {g \in DOMAIN schema.enum \cap DOMAIN args :
                        args[g] \notin schema.enum[g]}}

\* schema.parse(args): unknown keys are stripped, defaults fill the absent keys.
\* The handlers destructure the result, which makes a key that is still absent
\* `undefined`.
ZodParse(schema, args) ==
  LET issues == ZodIssues(schema, args)
      given == IF Omitted(args) THEN {} ELSE DOMAIN args \cap (schema.req \cup schema.opt)
      keys == given \cup DOMAIN schema.def \cup schema.req
  IN  IF issues # {}
        THEN [success |-> FALSE, message |-> <<"ZodError", issues>>]
        ELSE [success |-> TRUE,
              data |-> [f \in keys |-> IF f \in given THEN args[f]
                                       ELSE IF f \in DOMAIN schema.def THEN schema.def[f]
                                       ELSE Undefined]]

Flagged(v) == v \in {"unified", "enhanced"}

\* In the enhanced server every optional flag has the default false.
FlagDefaults(v, flags) == IF v = "enhanced" THEN [f \in flags |-> FALSE] ELSE <<>>

ListSecretsSchema(v) ==
  ZObject({"project", "config"},
          IF Flagged(v) THEN {"includeAnalysis", "validateNaming"} ELSE {},
          FlagDefaults(v, {"includeAnalysis", "validateNaming"}), <<>>)

GetSecretSchema(v) ==
  ZObject({"project", "config", "name"},
          IF Flagged(v) THEN {"includeContext"} ELSE {},
          FlagDefaults(v, {"includeContext"}), <<>>)

SetSecretSchema(v) ==
  ZObject({"project", "config", "name", "value"},
          IF Flagged(v) THEN {"validateSecurity", "checkNaming"} ELSE {},
          FlagDefaults(v, {"validateSecurity", "checkNaming"}), <<>>)

DeleteSecretSchema ==
  ZObject({"project", "config", "secrets"}, {}, <<>>, <<>>)

PromoteSecretsSchema(v) ==
  ZObject({"project", "sourceConfig", "targetConfig"},
          {"excludeKeys"} \cup (IF Flagged(v) THEN {"autoExclude", "dryRun"} ELSE {})
                          \cup (IF v = "enhanced" THEN {"includeValidation"} ELSE {}),
          IF v = "enhanced"
            THEN [f \in {"autoExclude", "dryRun", "includeValidation"} |->
                    f = "includeValidation"]
            ELSE <<>>,
          <<>>)

\* .default('read') of the schema's access key.
SchemaAccessDefault == "read"

\* A token schema that requires the access level.
CreateServiceTokenSchemaStrict ==
  ZObject({"project", "config", "name", "access"}, {}, <<>>,
          [access |-> {"read", "read/write"}])

CreateServiceTokenSchema ==
  ZObject({"project", "config", "name"}, {"access"},
          [access |-> SchemaAccessDefault],
          [access |-> {"read", "read/write"}])

GetActivityLogsSchema ==
  ZObject({}, {"project", "page", "perPage"}, [page |-> 1, perPage |-> 20], <<>>)

EnhancedListProjectsSchema ==
  ZObject({}, {"includeInsights", "analysisLevel"},
          [includeInsights |-> FALSE, analysisLevel |-> "basic"],
          [analysisLevel |-> {"basic", "detailed"}])

Environments == {"development", "staging", "production"}

SecurityRecommendationsSchema(v) ==
  ZObject({"environment"},
          {"tokenType"} \cup (IF v = "enhanced" THEN {"integrations", "riskLevel"} ELSE {}),
          <<>>,
          [environment |-> Environments, tokenType |-> {"personal", "service", "cli"}])

ValidateConfigurationSchema(v) ==
  ZObject({"project", "config"},
          {"checkSecurity"}
            \cup (IF v = "enhanced" THEN {"checkCompliance", "includeOptimizations"} ELSE {}),
          IF v = "enhanced"
            THEN [checkSecurity |-> TRUE, checkCompliance |-> FALSE,
                  includeOptimizations |-> TRUE]
            ELSE [checkSecurity |-> TRUE],
          <<>>)

TroubleshootIssueSchema(v) ==
  ZObject({"issue"},
          {"context"} \cup (IF v = "enhanced" THEN {"urgency"} ELSE {}),
          IF v = "enhanced" THEN [urgency |-> "medium"] ELSE <<>>,
          <<>>)

\* The required keys of the schemas of the enhanced server's other
\* intelligence tools.
EnhancedOnlyRequired ==
  [doppler_suggest_workflow |-> {"useCase", "teamSize"},
   doppler_generate_setup_guide |-> {"targetEnvironment", "projectType"},
   doppler_audit_security |-> {"scope"},
   doppler_plan_migration |-> {"sourceSystem"},
   doppler_optimize_permissions |-> {"analysisTarget"},
   doppler_create_environment_strategy |-> {"organizationType", "deploymentPattern"},
   doppler_generate_documentation |-> {"documentationType", "audience"}]

\* The z.enum and z.number().min(1).max(1000) constraints of their required
\* keys.
EnhancedOnlyEnums ==
  [doppler_suggest_workflow |->
     [useCase |-> {"web-app", "api-service", "microservices", "mobile-app",
                   "data-pipeline", "ml-model"},
      teamSize |-> 1..1000],
   doppler_generate_setup_guide |->
     [targetEnvironment |-> {"local-development", "github-actions", "docker",
                             "kubernetes", "aws-lambda", "vercel", "netlify"},
      projectType |-> {"nodejs", "python", "java", "go", "php", "ruby", "dotnet"}],
   doppler_audit_security |->
     [scope |-> {"project", "workplace", "token", "integration"}],
   doppler_plan_migration |->
     [sourceSystem |-> {"env-files", "aws-secrets-manager", "azure-key-vault",
                        "hashicorp-vault", "kubernetes-secrets", "other"}],
   doppler_optimize_permissions |->
     [analysisTarget |-> {"all-tokens", "service-tokens", "personal-tokens",
                          "project-access"}],
   doppler_create_environment_strategy |->
     [organizationType |-> {"startup", "enterprise", "agency", "saas", "ecommerce"},
      deploymentPattern |-> {"traditional", "microservices", "serverless", "hybrid"}],
   doppler_generate_documentation |->
     [documentationType |-> {"setup-guide", "api-docs", "security-policies",
                             "troubleshooting", "team-handbook", "compliance-report"},
      audience |-> {"developers", "devops", "security-team", "management",
                    "compliance-officers"}]]

EnhancedOnlyTools == DOMAIN EnhancedOnlyRequired

EnhancedOnlySchema(tool) ==
  ZObject(EnhancedOnlyRequired[tool], {}, <<>>, EnhancedOnlyEnums[tool])

(***************************************************************************)
(* Tool catalogs: what listTools advertises.                               *)
(***************************************************************************)
Tool(name, required, enum) == [name |-> name, required |-> required, enum |-> enum]

TOOLS ==
  <<Tool("doppler_list_projects", {}, <<>>),
    Tool("doppler_list_secrets", {"project", "config"}, <<>>),
    Tool("doppler_get_secret", {"project", "config", "name"}, <<>>),
    Tool("doppler_set_secret", {"project", "config", "name", "value"}, <<>>),
    Tool("doppler_delete_secrets", {"project", "config", "secrets"}, <<>>),
    Tool("doppler_promote_secrets", {"project", "sourceConfig", "targetConfig"}, <<>>),
    Tool("doppler_create_service_token", {"project", "config", "name"},
         [access |-> {"read", "read/write"}]),
    Tool("doppler_get_activity_logs", {}, <<>>)>>

\* The catalog of the simplified (read-only) package.
SimplifiedTOOLS ==
  <<Tool("doppler_list_projects", {}, <<>>),
    Tool("doppler_list_secrets", {"project", "config"}, <<>>),
    Tool("doppler_get_secret", {"project", "config", "name"}, <<>>)>>

\* The tools the unified server pushes when intelligence is enabled.
UnifiedIntelligenceTools ==
  <<Tool("doppler_get_security_recommendations", {"environment"},
         [environment |-> Environments, tokenType |-> {"personal", "service", "cli"}]),
    Tool("doppler_validate_configuration", {"project", "config"}, <<>>),
    Tool("doppler_troubleshoot_issue", {"issue"}, <<>>)>>

INTELLIGENCE_TOOLS ==
  <<Tool("doppler_get_security_recommendations", {"environment"},
         [environment |-> Environments, tokenType |-> {"personal", "service", "cli"}]),
    Tool("doppler_validate_configuration", {"project", "config"}, <<>>),
    Tool("doppler_suggest_workflow", {"useCase", "teamSize"},
         [useCase |-> {"web-app", "api-service", "microservices", "mobile-app",
                       "data-pipeline", "ml-model"},
          teamSize |-> 1..1000]),
    Tool("doppler_troubleshoot_issue", {"issue"}, <<>>),
    Tool("doppler_generate_setup_guide", {"targetEnvironment", "projectType"},
         [targetEnvironment |-> {"local-development", "github-actions", "docker",
                                 "kubernetes", "aws-lambda", "vercel", "netlify"},
          projectType |-> {"nodejs", "python", "java", "go", "php", "ruby", "dotnet"}]),
    Tool("doppler_audit_security", {"scope"},
         [scope |-> {"project", "workplace", "token", "integration"}]),
    Tool("doppler_plan_migration", {"sourceSystem"},
         [sourceSystem |-> {"env-files", "aws-secrets-manager", "azure-key-vault",
                            "hashicorp-vault", "kubernetes-secrets", "other"}]),
    Tool("doppler_optimize_permissions", {"analysisTarget"},
         [analysisTarget |-> {"all-tokens", "service-tokens", "personal-tokens",
                              "project-access"}]),
    Tool("doppler_create_environment_strategy",
         {"organizationType", "deploymentPattern"},
         [organizationType |-> {"startup", "enterprise", "agency", "saas", "ecommerce"},
          deploymentPattern |-> {"traditional", "microservices", "serverless",
                                 "hybrid"}]),
    Tool("doppler_generate_documentation", {"documentationType", "audience"},
         [documentationType |-> {"setup-guide", "api-docs", "security-policies",
                                 "troubleshooting", "team-handbook",
                                 "compliance-report"},
          audience |-> {"developers", "devops", "security-team", "management",
                        "compliance-officers"}])>>

ALL_ENHANCED_TOOLS ==
  INTELLIGENCE_TOOLS \o
  <<Tool("doppler_list_projects", {}, [analysisLevel |-> {"basic", "detailed"}]),
    Tool("doppler_list_secrets", {"project", "config"}, <<>>),
    Tool("doppler_get_secret", {"project", "config", "name"}, <<>>),
    Tool("doppler_set_secret", {"project", "config", "name", "value"}, <<>>),
    Tool("doppler_promote_secrets", {"project", "sourceConfig", "targetConfig"}, <<>>),
    Tool("doppler_delete_secrets", {"project", "config", "secrets"}, <<>>),
    Tool("doppler_create_service_token", {"project", "config", "name"},
         [access |-> {"read", "read/write"}]),
    Tool("doppler_get_activity_logs", {}, <<>>)>>

\* A catalog that never lists the intelligence tools.
getBasicTools(en) == TOOLS

\* UnifiedDopplerMCPServer.getAvailableTools
getAvailableTools(en) == IF en THEN TOOLS \o UnifiedIntelligenceTools ELSE TOOLS

\* The ListTools handler of server v with intelligence setting en.
ListTools(v, en) ==
  CASE v = "v01" -> TOOLS
    [] v = "simplified" -> SimplifiedTOOLS
    [] v = "unified" -> getAvailableTools(en)
    [] v = "enhanced" -> ALL_ENHANCED_TOOLS

Range(seq) == {seq[i] : i \in DOMAIN seq}

ToolNames(catalog) == {t.name : t \in Range(catalog)}

(***************************************************************************)
(* Response texts.  A text is the sequence of the pieces its template      *)
(* string is built of; JSON.stringify yields a text that opens with the    *)
(* bracket of an array or the brace of an object.                          *)
(***************************************************************************)
JSONArray(v) == <<"[", v, "]">>

JSONObject(v) == <<"{", v, "}">>

\* JSON.stringify leaves out a key whose value is undefined.
JSONSecret(secret) ==
  IF secret.value = Undefined THEN JSONObject([name |-> secret.name])
  ELSE JSONObject(secret)

Envelope(text) == [content |-> <<[type |-> "text", text |-> text]>>]

Text(t) == Return(Envelope(t))

\* `Error: ${error.message}`
ErrorMarker == "Error: "

ErrorTextUnmarked(message) == message

ErrorText(message) == <<ErrorMarker>> \o message

\* The catch block of a CallTool handler that lets the error escape.
CatchRethrow(step) == step

\* The try/catch around the CallTool switch: an error thrown in it becomes a
\* normal response.
Catch(step) ==
  IF step.do = "throw" THEN Text(ErrorText(step.message)) ELSE step

\* `const x = await <step>`: the function goes on with x once the step has
\* returned; until then, and when it throws, the step is the function's own.
Pending(step) == step.do # "return"

\* `Schema.parse(args)` throws the ZodError of a failed validation.
ZodError(p) == Throw(p.message)

UnknownTool(name) == Throw(<<"Unknown tool: ", name>>)

(***************************************************************************)
(* String and array helpers of the handlers, on the values of the model.   *)
(***************************************************************************)
\* value.length
StringLength(value) == IF value = "test" THEN 4 ELSE 14

\* /^(test|demo|example|password|123)/i.test(value)
LooksLikeTestValue(value) == value = "test"

\* /^[A-Z][A-Z0-9_]*$/.test(name)
NamingCompliant(name) == name \in {"API_KEY", "DATABASE_URL"}

\* Object.keys of an array: its indices, as strings.
IndexStrings == <<"0", "1", "2", "3">>

ObjectKeys(array) == [i \in 1..Len(array) |-> IndexStrings[i]]

\* [...new Set(array)]
RECURSIVE Dedupe(_)
Dedupe(array) ==
  IF Len(array) = 0 THEN <<>>
  ELSE LET front == Dedupe(SubSeq(array, 1, Len(array) - 1))
           last == array[Len(array)]
       IN  IF \E i \in DOMAIN front : front[i] = last THEN front
           ELSE Append(front, last)

(***************************************************************************)
(* Response texts shared by the servers                                    *)
(***************************************************************************)
SetSecretMessage(d, result) ==
  <<"Secret '", d.name, "' has been ",
    IF result.created THEN "created" ELSE "updated",
    " successfully in ", d.project, "/", d.config>>

DeletedMessage(d) ==
  <<"Successfully deleted ", Len(d.secrets), " secret(s) from ", d.project, "/", d.config>>

PromotedMessage(d, result) ==
  <<"Successfully promoted ", result.count, " secrets from ", d.project, "/",
    d.sourceConfig, " to ", d.project, "/", d.targetConfig>>

\* Reading token.key of an undefined token is a TypeError.
TokenCreated(token) ==
  IF token = Undefined
    THEN Throw(<<"Cannot read properties of undefined (reading 'key')">>)
    ELSE Text(<<"Service token created successfully:\nToken: ", token.key,
                "\nAccess: ", token.access,
                "\n\nIMPORTANT: Save this token securely, it won't be shown again!">>)

(***************************************************************************)
(* The CallTool handler of index.ts (v0.1)                                 *)
(***************************************************************************)
CaseListProjects(rs) ==
  LET projects == DopplerClient("listProjects", EmptyObject, rs)
  IN  IF Pending(projects) THEN projects
      ELSE Text(JSONArray(projects.value))

CaseListSecrets(args, rs) ==
  LET p == ZodParse(ListSecretsSchema("v01"), args)
      secrets == DopplerClient("listSecrets", p.data, rs)
  IN  IF ~p.success THEN ZodError(p)
      ELSE IF Pending(secrets) THEN secrets
      ELSE Text(JSONArray(secrets.value))

CaseGetSecret(args, rs) ==
  LET p == ZodParse(GetSecretSchema("v01"), args)
      secret == DopplerClient("getSecret", p.data, rs)
  IN  IF ~p.success THEN ZodError(p)
      ELSE IF Pending(secret) THEN secret
      ELSE Text(JSONSecret(secret.value))

CaseSetSecret(args, rs) ==
  LET p == ZodParse(SetSecretSchema("v01"), args)
      result == DopplerClient("setSecret", p.data, rs)
  IN  IF ~p.success THEN ZodError(p)
      ELSE IF Pending(result) THEN result
      ELSE Text(SetSecretMessage(p.data, result.value))

CaseDeleteSecrets(args, rs) ==
  LET p == ZodParse(DeleteSecretSchema, args)
      result == DopplerClient("deleteSecrets", p.data, rs)
  IN  IF ~p.success THEN ZodError(p)
      ELSE IF Pending(result) THEN result
      ELSE Text(DeletedMessage(p.data))

CasePromoteSecrets(args, rs) ==
  LET p == ZodParse(PromoteSecretsSchema("v01"), args)
      result == DopplerClient("promoteSecrets", p.data, rs)
  IN  IF ~p.success THEN ZodError(p)
      ELSE IF Pending(result) THEN result
      ELSE Text(PromotedMessage(p.data, result.value))

CaseCreateServiceToken(args, rs) ==
  LET p == ZodParse(CreateServiceTokenSchema, args)
      token == DopplerClient("createServiceToken", p.data, rs)
  IN  IF ~p.success THEN ZodError(p)
      ELSE IF Pending(token) THEN token
      ELSE TokenCreated(token.value)

CaseGetActivityLogs(args, rs) ==
  LET p == ZodParse(GetActivityLogsSchema, args)
      logs == DopplerClient("getActivityLogs", p.data, rs)
  IN  IF ~p.success THEN ZodError(p)
      ELSE IF Pending(logs) THEN logs
      ELSE Text(JSONArray(logs.value))

SwitchV01(name, args, rs) ==
  CASE name = "doppler_list_projects" -> CaseListProjects(rs)
    [] name = "doppler_list_secrets" -> CaseListSecrets(args, rs)
    [] name = "doppler_get_secret" -> CaseGetSecret(args, rs)
    [] name = "doppler_set_secret" -> CaseSetSecret(args, rs)
    [] name = "doppler_delete_secrets" -> CaseDeleteSecrets(args, rs)
    [] name = "doppler_promote_secrets" -> CasePromoteSecrets(args, rs)
    [] name = "doppler_create_service_token" -> CaseCreateServiceToken(args, rs)
    [] name = "doppler_get_activity_logs" -> CaseGetActivityLogs(args, rs)
    [] OTHER -> UnknownTool(name)

(***************************************************************************)
(* The CallTool handler of the simplified server                           *)
(***************************************************************************)
SwitchSimplified(name, args, rs) ==
  CASE name = "doppler_list_projects" -> CaseListProjects(rs)
    [] name = "doppler_list_secrets" -> CaseListSecrets(args, rs)
    [] name = "doppler_get_secret" -> CaseGetSecret(args, rs)
    [] OTHER -> UnknownTool(name)

(***************************************************************************)
(* The CallTool handler of the unified server (v0.2.0)                     *)
(***************************************************************************)
\* A destructured flag that the arguments may leave out.
Flag(d, f) == f \in DOMAIN d /\ d[f]

NamingValidation(secretNames) ==
  [compliant |-> SelectSeq(secretNames, NamingCompliant),
   non_compliant |-> SelectSeq(secretNames, LAMBDA n : ~NamingCompliant(n))]

UnifiedListSecrets(args, rs) ==
  LET p == ZodParse(ListSecretsSchema("unified"), args)
      d == p.data
      secrets == DopplerClient("listSecrets", d, rs)
  IN  IF ~p.success THEN ZodError(p)
      ELSE IF Pending(secrets) THEN secrets
      ELSE IF ~Flag(d, "includeAnalysis") /\ ~Flag(d, "validateNaming")
        THEN Text(JSONArray(secrets.value))
      ELSE Text(JSONObject(
             [secrets |-> secrets.value,
              analysis |-> IF Flag(d, "includeAnalysis")
                             THEN [total_secrets |-> Len(ObjectKeys(secrets.value))]
                             ELSE Undefined,
              naming_validation |-> IF Flag(d, "validateNaming")
                                      THEN NamingValidation(ObjectKeys(secrets.value))
                                      ELSE Undefined]))

UnifiedGetSecret(args, rs) ==
  LET p == ZodParse(GetSecretSchema("unified"), args)
      secret == DopplerClient("getSecret", p.data, rs)
  IN  IF ~p.success THEN ZodError(p)
      ELSE IF Pending(secret) THEN secret
      ELSE IF ~Flag(p.data, "includeContext") THEN Text(JSONSecret(secret.value))
      ELSE Text(JSONObject([secret |-> secret.value, context |-> "basic_recommendations"]))

SecurityIssues(value) ==
  (IF StringLength(value) < 8 THEN <<"too short">> ELSE <<>>)
    \o (IF LooksLikeTestValue(value) THEN <<"test/demo value">> ELSE <<>>)

\* validationResults: the keys the requested validations have set.
ValidationResults(d) ==
  LET security == [passed |-> Len(SecurityIssues(d.value)) = 0,
                   issues |-> SecurityIssues(d.value)]
      naming == [valid |-> NamingCompliant(d.name)]
  IN  CASE Flag(d, "validateSecurity") /\ Flag(d, "checkNaming") ->
             [security |-> security, naming |-> naming]
        [] Flag(d, "validateSecurity") /\ ~Flag(d, "checkNaming") ->
             [security |-> security]
        [] ~Flag(d, "validateSecurity") /\ Flag(d, "checkNaming") ->
             [naming |-> naming]
        [] OTHER -> <<>>

\* The enhanced server's validationResults: the same validations under the keys
\* security_validation and naming_validation.
EnhancedValidationResults(d) ==
  LET security == [passed |-> Len(SecurityIssues(d.value)) = 0,
                   issues |-> SecurityIssues(d.value)]
      naming == [compliant |-> NamingCompliant(d.name)]
  IN  CASE d.validateSecurity /\ d.checkNaming ->
             [security_validation |-> security, naming_validation |-> naming]
        [] d.validateSecurity /\ ~d.checkNaming -> [security_validation |-> security]
        [] ~d.validateSecurity /\ d.checkNaming -> [naming_validation |-> naming]
        [] OTHER -> <<>>

\* A set_secret that refuses to write a value its security validation objects
\* to.
UnifiedSetSecretGated(args, rs) ==
  LET p == ZodParse(SetSecretSchema("unified"), args)
      d == p.data
      result == DopplerClient("setSecret", d, rs)
  IN  IF ~p.success THEN ZodError(p)
      ELSE IF Flag(d, "validateSecurity") /\ Len(SecurityIssues(d.value)) > 0
        THEN Text(JSONObject([validation |-> ValidationResults(d)]))
      ELSE IF Pending(result) THEN result
      ELSE Text(JSONObject(
             IF DOMAIN ValidationResults(d) # {}
               THEN [message |-> SetSecretMessage(d, result.value),
                     validation |-> ValidationResults(d)]
               ELSE [message |-> SetSecretMessage(d, result.value)]))

\* The validations are computed first and do not gate the write.
UnifiedSetSecret(args, rs) ==
  LET p == ZodParse(SetSecretSchema("unified"), args)
      d == p.data
      result == DopplerClient("setSecret", d, rs)
  IN  IF ~p.success THEN ZodError(p)
      ELSE IF Pending(result) THEN result
      ELSE Text(JSONObject(
             IF DOMAIN ValidationResults(d) # {}
               THEN [message |-> SetSecretMessage(d, result.value),
                     validation |-> ValidationResults(d)]
               ELSE [message |-> SetSecretMessage(d, result.value)]))

\* excludeKeys || []
ExcludeKeysOrEmpty(d) == IF "excludeKeys" \in DOMAIN d THEN d.excludeKeys ELSE <<>>

UnifiedEnvSpecific == <<"DATABASE_URL", "API_URL", "REDIS_URL">>

UnifiedFinalExcludeKeys(d) ==
  IF Flag(d, "autoExclude")
    THEN Dedupe(ExcludeKeysOrEmpty(d) \o UnifiedEnvSpecific)
    ELSE ExcludeKeysOrEmpty(d)

\* A dry run that carries the promotion out before it reports.
DryRunApplying(d, finalExcludeKeys, rs) ==
  LET result == DopplerClient("promoteSecrets",
                              [project |-> d.project, sourceConfig |-> d.sourceConfig,
                               targetConfig |-> d.targetConfig,
                               excludeKeys |-> finalExcludeKeys], rs)
  IN  IF Pending(result) THEN result ELSE Return(<<>>)

\* The dry run lists the names of the source and filters Object.keys of that
\* array: once the list is there, the step returns the keys to promote.
DryRun(d, finalExcludeKeys, rs) ==
  LET sourceSecrets ==
        DopplerClient("listSecrets", [project |-> d.project, config |-> d.sourceConfig], rs)
  IN  IF Pending(sourceSecrets) THEN sourceSecrets
      ELSE Return(SelectSeq(ObjectKeys(sourceSecrets.value),
                            LAMBDA key : ~includes(finalExcludeKeys, key)))

UnifiedDryRunReport(toPromote, excluded) ==
  Text(JSONObject([dry_run |-> TRUE, secrets_to_promote |-> toPromote,
                   excluded |-> excluded, total |-> Len(toPromote)]))

UnifiedPromoteSecrets(args, rs) ==
  LET p == ZodParse(PromoteSecretsSchema("unified"), args)
      d == p.data
      toPromote == DryRun(d, UnifiedFinalExcludeKeys(d), rs)
      result == DopplerClient("promoteSecrets",
                              [project |-> d.project, sourceConfig |-> d.sourceConfig,
                               targetConfig |-> d.targetConfig,
                               excludeKeys |-> UnifiedFinalExcludeKeys(d)], rs)
  IN  IF ~p.success THEN ZodError(p)
      ELSE IF Flag(d, "dryRun")
        THEN IF Pending(toPromote) THEN toPromote
             ELSE UnifiedDryRunReport(toPromote.value, UnifiedFinalExcludeKeys(d))
      ELSE IF Pending(result) THEN result
      ELSE Text(PromotedMessage(d, result.value))

IntelligenceDisabled ==
  Throw(<<"Intelligence features not enabled. Set DOPPLER_ENABLE_INTELLIGENCE=true">>)

\* An intelligence case without the guard.
UnifiedIntelligenceUnguarded(en, schema, args) ==
  LET p == ZodParse(schema, args)
  IN  IF ~p.success THEN ZodError(p) ELSE Text(JSONObject(p.data))

\* An intelligence case: the guard on enableIntelligence, the parse, and a
\* response computed from the parsed arguments alone.
UnifiedIntelligence(en, schema, args) ==
  LET p == ZodParse(schema, args)
  IN  IF ~en THEN IntelligenceDisabled
      ELSE IF ~p.success THEN ZodError(p)
      ELSE Text(JSONObject(p.data))

SwitchUnified(en, name, args, rs) ==
  CASE name = "doppler_list_projects" -> CaseListProjects(rs)
    [] name = "doppler_list_secrets" -> UnifiedListSecrets(args, rs)
    [] name = "doppler_get_secret" -> UnifiedGetSecret(args, rs)
    [] name = "doppler_set_secret" -> UnifiedSetSecret(args, rs)
    [] name = "doppler_delete_secrets" -> CaseDeleteSecrets(args, rs)
    [] name = "doppler_promote_secrets" -> UnifiedPromoteSecrets(args, rs)
    [] name = "doppler_create_service_token" -> CaseCreateServiceToken(args, rs)
    [] name = "doppler_get_activity_logs" -> CaseGetActivityLogs(args, rs)
    [] name = "doppler_get_security_recommendations" ->
         UnifiedIntelligence(en, SecurityRecommendationsSchema("unified"), args)
    [] name = "doppler_validate_configuration" ->
         UnifiedIntelligence(en, ValidateConfigurationSchema("unified"), args)
    [] name = "doppler_troubleshoot_issue" ->
         UnifiedIntelligence(en, TroubleshootIssueSchema("unified"), args)
    [] OTHER -> UnknownTool(name)

(***************************************************************************)
(* The CallTool handler of the enhanced server                             *)
(***************************************************************************)
handleEnhancedListProjects(args, rs) ==
  LET p == ZodParse(EnhancedListProjectsSchema, args)
      projects == DopplerClient("listProjects", EmptyObject, rs)
  IN  IF ~p.success THEN ZodError(p)
      ELSE IF Pending(projects) THEN projects
      ELSE IF ~p.data.includeInsights THEN Text(JSONArray(projects.value))
      ELSE Text(JSONObject(
             [projects |-> projects.value,
              intelligence_insights |-> [project_count |-> Len(projects.value),
                                         analysis_level |-> p.data.analysisLevel]]))

handleEnhancedListSecrets(args, rs) ==
  LET p == ZodParse(ListSecretsSchema("enhanced"), args)
      d == p.data
      secrets == DopplerClient("listSecrets", d, rs)
  IN  IF ~p.success THEN ZodError(p)
      ELSE IF Pending(secrets) THEN secrets
      ELSE IF ~d.includeAnalysis /\ ~d.validateNaming THEN Text(JSONArray(secrets.value))
      ELSE Text(JSONObject(
             [secrets |-> secrets.value,
              security_analysis |-> IF d.includeAnalysis
                                      THEN [total_secrets |-> Len(ObjectKeys(secrets.value))]
                                      ELSE Undefined,
              naming_validation |-> IF d.validateNaming
                                      THEN NamingValidation(ObjectKeys(secrets.value))
                                      ELSE Undefined]))

handleEnhancedGetSecret(args, rs) ==
  LET p == ZodParse(GetSecretSchema("enhanced"), args)
      secret == DopplerClient("getSecret", p.data, rs)
  IN  IF ~p.success THEN ZodError(p)
      ELSE IF Pending(secret) THEN secret
      ELSE IF ~p.data.includeContext THEN Text(JSONSecret(secret.value))
      ELSE Text(JSONObject([secret |-> secret.value, context |-> "contextualHelp"]))

handleEnhancedSetSecret(args, rs) ==
  LET p == ZodParse(SetSecretSchema("enhanced"), args)
      result == DopplerClient("setSecret", p.data, rs)
  IN  IF ~p.success THEN ZodError(p)
      ELSE IF Pending(result) THEN result
      ELSE Text(JSONObject([result |-> SetSecretMessage(p.data, result.value),
                            validation |-> EnhancedValidationResults(p.data)]))

EnhancedEnvSpecificKeys ==
  <<"DATABASE_URL", "API_URL", "REDIS_URL", "MONGO_URL", "ELASTICSEARCH_URL">>

EnhancedFinalExcludeKeys(d) ==
  IF d.autoExclude THEN ExcludeKeysOrEmpty(d) \o EnhancedEnvSpecificKeys
  ELSE ExcludeKeysOrEmpty(d)

EnhancedDryRunReport(toPromote, excluded) ==
  Text(JSONObject([dry_run |-> TRUE, secrets_to_promote |-> toPromote,
                   excluded_secrets |-> excluded,
                   total_count |-> Len(toPromote)]))

handleEnhancedPromoteSecrets(args, rs) ==
  LET p == ZodParse(PromoteSecretsSchema("enhanced"), args)
      d == p.data
      toPromote == DryRun(d, EnhancedFinalExcludeKeys(d), rs)
      result == DopplerClient("promoteSecrets",
                              [project |-> d.project, sourceConfig |-> d.sourceConfig,
                               targetConfig |-> d.targetConfig,
                               excludeKeys |-> EnhancedFinalExcludeKeys(d)], rs)
  IN  IF ~p.success THEN ZodError(p)
      ELSE IF d.dryRun
        THEN IF Pending(toPromote) THEN toPromote
             ELSE EnhancedDryRunReport(toPromote.value, EnhancedFinalExcludeKeys(d))
      ELSE IF Pending(result) THEN result
      ELSE Text(PromotedMessage(d, result.value)
                  \o <<". Excluded: ", Len(EnhancedFinalExcludeKeys(d)), " keys.">>)

\* An intelligence handler: the parse, then a JSON object computed from the
\* parsed arguments and the built-in knowledge base, with no remote call.
handleIntelligence(schema, args) ==
  LET p == ZodParse(schema, args)
  IN  IF ~p.success THEN ZodError(p) ELSE Text(JSONObject(p.data))

SwitchEnhanced(name, args, rs) ==
  CASE name = "doppler_list_projects" -> handleEnhancedListProjects(args, rs)
    [] name = "doppler_list_secrets" -> handleEnhancedListSecrets(args, rs)
    [] name = "doppler_get_secret" -> handleEnhancedGetSecret(args, rs)
    [] name = "doppler_set_secret" -> handleEnhancedSetSecret(args, rs)
    [] name = "doppler_promote_secrets" -> handleEnhancedPromoteSecrets(args, rs)
    [] name = "doppler_get_security_recommendations" ->
         handleIntelligence(SecurityRecommendationsSchema("enhanced"), args)
    [] name = "doppler_validate_configuration" ->
         handleIntelligence(ValidateConfigurationSchema("enhanced"), args)
    [] name = "doppler_troubleshoot_issue" ->
         handleIntelligence(TroubleshootIssueSchema("enhanced"), args)
    [] name \in EnhancedOnlyTools -> handleIntelligence(EnhancedOnlySchema(name), args)
    [] name = "doppler_delete_secrets" -> CaseDeleteSecrets(args, rs)
    [] name = "doppler_create_service_token" -> CaseCreateServiceToken(args, rs)
    [] name = "doppler_get_activity_logs" -> CaseGetActivityLogs(args, rs)
    [] OTHER -> UnknownTool(name)

(***************************************************************************)
(* The CallTool request handler of server v: the switch inside try/catch.  *)
(***************************************************************************)
Switch(v, en, name, args, rs) ==
  CASE v = "v01" -> SwitchV01(name, args, rs)
    [] v = "simplified" -> SwitchSimplified(name, args, rs)
    [] v = "unified" -> SwitchUnified(en, name, args, rs)
    [] v = "enhanced" -> SwitchEnhanced(name, args, rs)

CallToolHandler(v, en, name, args, rs) == Catch(Switch(v, en, name, args, rs))

\* The names the switch of server v has a case for: those it does not hand to
\* its default branch.
AllToolNames ==
  ToolNames(ALL_ENHANCED_TOOLS) \cup ToolNames(TOOLS) \cup {"doppler_unknown_tool"}

HasCase(v, en, n) ==
  LET step == Switch(v, en, n, NoArgs, <<>>)
  IN  ~(step.do = "throw" /\ step.message[1] = "Unknown tool: ")

DispatcherCases(v, en) == {n \in AllToolNames : HasCase(v, en, n)}

(***************************************************************************)
(* The calls of the model: the argument objects a host sends with each     *)
(* tool name, and the parameters a caller passes to each client method.    *)
(***************************************************************************)
PC == [project |-> Project, config |-> "dev"]

Promotion == [project |-> Project, sourceConfig |-> "dev", targetConfig |-> "prd"]

\* f @@ g, with f's value where both are defined.
With(f, g) == [k \in DOMAIN f \cup DOMAIN g |-> IF k \in DOMAIN f THEN f[k] ELSE g[k]]

Without(f, k) == [j \in DOMAIN f \ {k} |-> f[j]]

ExcludeLists ==
  <<<<>>, <<"api_key">>, <<"API_KEY", "DATABASE_URL">>, <<"DATABASE_URL", "database_url">>>>

\* Well-formed and ill-typed argument objects of each tool.
ToolArguments(name) ==
  CASE name = "doppler_list_projects" ->
         <<EmptyObject, [includeInsights |-> TRUE], [analysisLevel |-> "full"]>>
    [] name = "doppler_list_secrets" ->
         <<PC, With([includeAnalysis |-> TRUE], PC), With([validateNaming |-> TRUE], PC)>>
    [] name = "doppler_get_secret" ->
         <<With([name |-> "API_KEY"], PC),
           With([name |-> "API_KEY", includeContext |-> TRUE], PC)>>
    [] name = "doppler_set_secret" ->
         <<With([name |-> "API_KEY", value |-> "s3cr3t-value-1"], PC),
           With([name |-> "API_KEY", value |-> "test"], PC),
           With([name |-> "API_KEY", value |-> "test", validateSecurity |-> TRUE,
                 checkNaming |-> TRUE], PC),
           With([name |-> "API_KEY", value |-> "s3cr3t-value-1",
                 validateSecurity |-> TRUE], PC),
           With([name |-> "api_key", value |-> "test", checkNaming |-> TRUE], PC)>>
    [] name = "doppler_delete_secrets" ->
         <<With([secrets |-> <<"API_KEY">>], PC)>>
    [] name = "doppler_promote_secrets" ->
         <<Promotion,
           With([excludeKeys |-> ExcludeLists[2]], Promotion),
           With([excludeKeys |-> ExcludeLists[3]], Promotion),
           With([excludeKeys |-> <<"API_KEY", "api_key", "DATABASE_URL">>], Promotion),
           With([autoExclude |-> TRUE], Promotion),
           With([dryRun |-> TRUE, excludeKeys |-> ExcludeLists[2]], Promotion),
           With([dryRun |-> TRUE, autoExclude |-> TRUE], Promotion)>>
    [] name = "doppler_create_service_token" ->
         <<With([name |-> "ci"], PC),
           With([name |-> "ci", access |-> "read"], PC),
           With([name |-> "ci", access |-> "read/write"], PC),
           With([name |-> "ci", access |-> "admin"], PC)>>
    [] name = "doppler_get_activity_logs" ->
         <<EmptyObject, [project |-> Project], [page |-> 2]>>
    [] name = "doppler_get_security_recommendations" ->
         <<[environment |-> "production"], [environment |-> "moon"]>>
    [] name = "doppler_validate_configuration" -> <<PC>>
    [] name = "doppler_troubleshoot_issue" -> <<[issue |-> "authentication"]>>
    [] name = "doppler_suggest_workflow" ->
         <<[useCase |-> "web-app", teamSize |-> 5],
           [useCase |-> "web-app", teamSize |-> 0],
           [useCase |-> "game", teamSize |-> 5]>>
    [] name = "doppler_generate_setup_guide" ->
         <<[targetEnvironment |-> "docker", projectType |-> "nodejs"]>>
    [] name = "doppler_audit_security" -> <<[scope |-> "project"], [scope |-> "x"]>>
    [] name = "doppler_plan_migration" -> <<[sourceSystem |-> "env-files"]>>
    [] name = "doppler_optimize_permissions" -> <<[analysisTarget |-> "all-tokens"]>>
    [] name = "doppler_create_environment_strategy" ->
         <<[organizationType |-> "startup", deploymentPattern |-> "serverless"]>>
    [] name = "doppler_generate_documentation" ->
         <<[documentationType |-> "api-docs", audience |-> "developers"]>>
    [] OTHER -> <<EmptyObject, PC>>

\* The objects above, each of them with one of its keys left out, and a request
\* that has no `arguments` at all.
RECURSIVE OneKeyLess(_, _)
OneKeyLess(args, keys) ==
  IF keys = {} THEN <<>>
  ELSE LET k == CHOOSE x \in keys : TRUE
       IN  <<Without(args, k)>> \o OneKeyLess(args, keys \ {k})

RECURSIVE Flatten(_)
Flatten(seqs) == IF Len(seqs) = 0 THEN <<>> ELSE Head(seqs) \o Flatten(Tail(seqs))

\* The keys some schema requires.
RequiredKeys ==
  {"project", "config", "name", "value", "secrets", "sourceConfig", "targetConfig",
   "environment", "issue"}
    \cup UNION {EnhancedOnlyRequired[t] : t \in EnhancedOnlyTools}

ArgumentObjects(name) ==
  LET given == ToolArguments(name)
  IN  given \o <<NoArgs>>
        \o Flatten([i \in DOMAIN given |->
                      OneKeyLess(given[i], DOMAIN given[i] \cap RequiredKeys)])

\* The parameters passed to each method of the client.
ClientArguments(op) ==
  CASE op \in {"listProjects", "validateConnection"} -> <<EmptyObject>>
    [] op = "listConfigs" -> <<[project |-> Project]>>
    [] op = "listSecrets" -> <<PC>>
    [] op = "getSecret" -> <<With([name |-> "API_KEY"], PC)>>
    [] op = "setSecret" ->
         <<With([name |-> "API_KEY", value |-> "s3cr3t-value-1"], PC),
           With([name |-> "API_KEY", value |-> "test"], PC)>>
    [] op = "deleteSecrets" -> <<With([secrets |-> <<"API_KEY">>], PC)>>
    [] op = "promoteSecrets" ->
         <<Promotion>> \o
         [i \in DOMAIN ExcludeLists |-> With([excludeKeys |-> ExcludeLists[i]], Promotion)]
    [] op = "createServiceToken" ->
         <<With([name |-> "ci"], PC),
           With([name |-> "ci", access |-> "read"], PC),
           With([name |-> "ci", access |-> "read/write"], PC)>>
    [] op = "getActivityLogs" -> <<EmptyObject, [project |-> Project]>>

Servers == {"v01", "simplified", "unified", "enhanced"}

\* What a caller of entry point v may name, and the arguments that go with it.
CallNames(v) == IF v = "client" THEN ClientOps ELSE AllToolNames

CallArguments(v, name) ==
  IF v = "client" THEN ClientArguments(name) ELSE ArgumentObjects(name)

(***************************************************************************)
(* The state machine                                                       *)
(***************************************************************************)
EmptyMap == [k \in {} |-> "test"]

\* The dev configs a run starts from: any subset of the keys; the two values
\* vary on API_KEY, the key the calls of the model write.
InitialDev ==
  {m \in SecretMaps :
     \A k \in DOMAIN m :
       k = "API_KEY" \/ m[k] = (IF k = "api_key" THEN "test" ELSE "s3cr3t-value-1")}

InitialStores == {[dev |-> m, prd |-> EmptyMap] : m \in InitialDev}

(***************************************************************************)
(* Resources.  A URI is its scheme prefix and the segments between the     *)
(* slashes that follow: doppler://project/p1/config/dev is                 *)
(* [scheme |-> "doppler://", path |-> <<"project", "p1", "config", "dev">>]*)
(***************************************************************************)
URI(scheme, path) == [scheme |-> scheme, path |-> path]

NoMatch == [matched |-> FALSE]

\* The pattern without its `$`: a URI that goes on after a match is accepted.
MatchPrefix(uri) ==
  IF uri.scheme # "doppler://" \/ Len(uri.path) < 2 THEN NoMatch
  ELSE IF uri.path[1] # "project" \/ uri.path[2] = "" THEN NoMatch
  ELSE IF Len(uri.path) >= 4 /\ uri.path[3] = "config" /\ uri.path[4] # ""
    THEN [matched |-> TRUE, projectSlug |-> uri.path[2], configName |-> <<uri.path[4]>>]
  ELSE [matched |-> TRUE, projectSlug |-> uri.path[2], configName |-> <<>>]

\* uri.match(/^doppler:\/\/project\/([^\/]+)(?:\/config\/([^\/]+))?$/): the two
\* groups; configName is <<>> when the optional group did not take part.
Match(uri) ==
  IF uri.scheme # "doppler://" \/ Len(uri.path) \notin {2, 4} THEN NoMatch
  ELSE IF uri.path[1] # "project" \/ uri.path[2] = "" THEN NoMatch
  ELSE IF Len(uri.path) = 2
    THEN [matched |-> TRUE, projectSlug |-> uri.path[2], configName |-> <<>>]
  ELSE IF uri.path[3] # "config" \/ uri.path[4] = "" THEN NoMatch
  ELSE [matched |-> TRUE, projectSlug |-> uri.path[2], configName |-> <<uri.path[4]>>]

Contents(uri, text) ==
  [contents |-> <<[uri |-> uri, mimeType |-> "application/json", text |-> text]>>]

\* The ReadResource handler: an error of the client is thrown on.
ReadResourceHandler(uri, rs) ==
  LET m == Match(uri)
      secrets == DopplerClient("listSecrets",
                               [project |-> m.projectSlug, config |-> m.configName[1]], rs)
      configs == DopplerClient("listConfigs", [project |-> m.projectSlug], rs)
  IN  IF ~m.matched THEN Throw(<<"Invalid resource URI format">>)
      ELSE IF m.configName # <<>>
        THEN IF Pending(secrets) THEN secrets
             ELSE Return(Contents(uri, JSONArray(secrets.value)))
      ELSE IF Pending(configs) THEN configs
      ELSE Return(Contents(uri, JSONArray(configs.value)))

\* A resource whose uri is built from the project's display name.
ResourceByName(project) ==
  [uri |-> URI("doppler://", <<"project", project.name>>),
   name |-> project.name,
   description |-> IF "description" \in DOMAIN project /\ project.description # ""
                     THEN <<project.description>>
                     ELSE <<"Doppler project: ", project.name>>,
   mimeType |-> "application/json"]

Resource(project) ==
  [uri |-> URI("doppler://", <<"project", project.slug>>),
   name |-> project.name,
   description |-> IF "description" \in DOMAIN project /\ project.description # ""
                     THEN <<project.description>>
                     ELSE <<"Doppler project: ", project.name>>,
   mimeType |-> "application/json"]

\* The ListResources handler: a failure of the client yields an empty list.
ListResourcesHandler(rs) ==
  LET projects == DopplerClient("listProjects", EmptyObject, rs)
  IN  IF projects.do = "request" THEN projects
      ELSE IF projects.do = "throw" THEN Return([resources |-> <<>>])
      ELSE Return([resources |-> [i \in DOMAIN projects.value |->
                                    Resource(projects.value[i])]])

\* The handlers of the requests other than tools/call.
RequestHandler(v, en, c, rs) ==
  CASE c.request = "tools/list" -> Return([tools |-> ListTools(v, en)])
    [] c.request = "resources/list" -> ListResourcesHandler(rs)
    [] c.request = "resources/read" -> ReadResourceHandler(c.args.uri, rs)

\* A program that keeps the secret of its latest setSecret and answers the next
\* getSecret of that name from it.
ProgramWithSession(v, en, c, rs) ==
  IF v = "client" /\ c.tool = "getSecret" /\ prev.op = "setSecret"
       /\ prev.args.name = c.args.name
    THEN Return([name |-> c.args.name, value |-> prev.args.value])
  ELSE IF v = "client" THEN DopplerClient(c.tool, c.args, rs)
  ELSE CallToolHandler(v, en, c.tool, c.args, rs)

\* The program at entry point v, serving call c, at the point the answers rs
\* have brought it to.
Program(v, en, c, rs) ==
  IF v = "client" THEN DopplerClient(c.tool, c.args, rs)
  ELSE IF "request" \in DOMAIN c THEN RequestHandler(v, en, c, rs)
  ELSE CallToolHandler(v, en, c.tool, c.args, rs)

\* What is remembered of a completed call: a setSecret that returned.
Remember(v, c, result) ==
  IF v = "client" /\ c.tool = "setSecret" /\ result.do = "return"
    THEN [op |-> "setSecret", args |-> c.args, created |-> result.value.created,
          absent |-> c.args.name \notin DOMAIN c.at[c.args.config]]
    ELSE NoPrev

\* Run the program up to its next await, or to its end.
Advance(c, rs) ==
  LET step == Program(variant, enableIntelligence, c, rs)
  IN  IF step.do = "request"
        THEN /\ Len(rs) < MaxAttempts
             /\ inflight' = step.req
             /\ pc' = "await"
             /\ out' = NoOut
        ELSE /\ inflight' = NoReq
             /\ pc' = "done"
             /\ out' = step

\* process.env with the given variables set.
ProcessEnv(token, intelligence) ==
  [k \in {"DOPPLER_TOKEN" : t \in token} \cup {"DOPPLER_ENABLE_INTELLIGENCE" : i \in intelligence}
     |-> IF k = "DOPPLER_TOKEN" THEN CHOOSE t \in token : TRUE
         ELSE CHOOSE i \in intelligence : TRUE]

\* A check that lets every environment pass.
TokenMissingNever(e) == FALSE

\* `!token`: the variable is unset or empty.
TokenMissing(e) == "DOPPLER_TOKEN" \notin DOMAIN e \/ e["DOPPLER_TOKEN"] = ""

\* The request handlers setupHandlers registers.
RequestHandlers(v) ==
  CASE v = "simplified" -> {"tools/list", "tools/call"}
    [] v \in {"v01", "unified", "enhanced"} ->
         {"tools/list", "resources/list", "resources/read", "tools/call"}
    [] OTHER -> {}

Starting == [status |-> "starting", code |-> 0, handlers |-> {}, connected |-> FALSE]

Exited(p, code) == [p EXCEPT !.status = "exited", !.code = code, !.connected = FALSE]

Running(v) ==
  [status |-> "running", code |-> 0, handlers |-> RequestHandlers(v),
   connected |-> v \in Servers]

InitRest ==
  /\ env = ProcessEnv({"dp.st.token"}, IF enableIntelligence THEN {"true"} ELSE {})
  /\ proc = Running(variant)
  /\ store \in InitialStores
  /\ pc = "idle"
  /\ call = NoCall
  /\ inflight = NoReq
  /\ reqs = <<>>
  /\ out = NoOut
  /\ prev = NoPrev
  /\ second = NoSecond

\* A server was constructed (DOPPLER_TOKEN was set) and is connected.
Init ==
  /\ variant \in Servers
  /\ enableIntelligence \in (IF variant = "unified" THEN BOOLEAN ELSE {FALSE})
  /\ InitRest

\* A DopplerClient was constructed and is used directly.
InitClient ==
  /\ variant = "client"
  /\ enableIntelligence = FALSE
  /\ InitRest

\* A call arrives: a CallTool request at a server, a method call at the client.
\* `at` keeps the remote state the call started from.
CallTool ==
  /\ pc = "idle"
  /\ \E name \in CallNames(variant) :
       \E i \in DOMAIN CallArguments(variant, name) :
         LET c == [tool |-> name, args |-> CallArguments(variant, name)[i], at |-> store]
         IN  /\ call' = c
             /\ Advance(c, <<>>)
  /\ reqs' = <<>>
  /\ UNCHANGED <<variant, enableIntelligence, store, prev, env, proc, second>>

\* The remote API answers the request in flight, or the request times out or
\* the connection breaks; the awaiting method resumes with the answer.
Reply ==
  /\ pc = "await"
  /\ \E outcome \in Outcomes, applied \in BOOLEAN :
       /\ applied => outcome = "2xx" \/ (outcome \in MaybeApplied /\ Mutating(inflight))
       /\ outcome = "2xx" => applied
       /\ store' = IF applied THEN RemoteEffect(inflight, store) ELSE store
       /\ LET rs == Append(reqs, [req |-> inflight, outcome |-> outcome,
                                  data |-> IF outcome = "2xx"
                                             THEN RemoteData(inflight, store)
                                             ELSE RemoteErrorBody(outcome)])
          IN  /\ reqs' = rs
              /\ Advance(call, rs)
  /\ UNCHANGED <<variant, enableIntelligence, call, prev, env, proc, second>>

\* The response (or the rejection) reaches the caller.
Deliver ==
  /\ pc = "done"
  /\ pc' = "idle"
  /\ prev' = Remember(variant, call, out)
  /\ call' = NoCall
  /\ reqs' = <<>>
  /\ out' = NoOut
  /\ UNCHANGED <<variant, enableIntelligence, store, inflight, env, proc, second>>

Next == CallTool \/ Reply \/ Deliver

Spec == Init /\ [][Next]_vars

SpecClient == InitClient /\ [][Next]_vars

\* Every request settles: the remote API answers it, the connection breaks, or
\* the axios timeout of 30000 ms rejects it; and a handler that has returned
\* has its response sent.
Fairness == WF_vars(Reply) /\ WF_vars(Deliver)

\* A server whose dev config holds every key of the model.
InitLive == Init /\ DOMAIN store.dev = Keys

SpecLive == InitLive /\ [][Next]_vars /\ Fairness

\* Either entry point: a server, or the client used directly.
SpecEither == (Init \/ InitClient) /\ [][Next]_vars

(***************************************************************************)
(* Two calls in flight at the same time.  The SDK starts the handler of a  *)
(* request when the request arrives, whether or not an earlier handler is  *)
(* still awaiting its HTTP answer; each invocation has its own locals      *)
(* (name, args, the awaited results), and the answers arrive in any order. *)
(***************************************************************************)
\* The calls made concurrently.
ConcurrentNames ==
  {"doppler_list_secrets", "doppler_get_secret", "doppler_set_secret",
   "doppler_promote_secrets"}

ConcurrentVariants == {"v01", "unified"}

\* The arguments of the concurrent calls: well-formed ones, two values of the
\* same secret, a promotion with and without exclusions.
ConcurrentArguments(name) ==
  CASE name = "doppler_list_secrets" -> <<PC>>
    [] name = "doppler_get_secret" -> <<With([name |-> "API_KEY"], PC)>>
    [] name = "doppler_set_secret" ->
         <<With([name |-> "API_KEY", value |-> "s3cr3t-value-1"], PC),
           With([name |-> "API_KEY", value |-> "test"], PC)>>
    [] name = "doppler_promote_secrets" ->
         <<With([excludeKeys |-> ExcludeLists[2]], Promotion)>>

InitConcurrent ==
  /\ variant \in ConcurrentVariants
  /\ enableIntelligence = FALSE
  /\ InitRest
  /\ store.dev = [k \in Keys |-> IF k = "api_key" THEN "test" ELSE "s3cr3t-value-1"]

\* A second invocation that works on the arguments of the request the first
\* invocation is serving, when both name the same tool.
SecondStepSharing(c, rs) ==
  Program(variant, enableIntelligence,
          IF call # NoCall /\ call.tool = c.tool THEN [c EXCEPT !.args = call.args] ELSE c,
          rs)

\* The second invocation runs the same program on its own request and the
\* answers to its own HTTP requests.
SecondStep(c, rs) == Program(variant, enableIntelligence, c, rs)

AdvanceSecond(c, rs) ==
  LET step == SecondStep(c, rs)
  IN  IF step.do = "request"
        THEN /\ Len(rs) < MaxAttempts
             /\ second' = [pc |-> "await", call |-> c, inflight |-> step.req,
                           reqs |-> rs, out |-> NoOut]
        ELSE second' = [pc |-> "done", call |-> c, inflight |-> NoReq,
                        reqs |-> rs, out |-> step]

\* A call arrives while no other, or one other, is being served.
CallToolFirst ==
  /\ pc = "idle"
  /\ \E name \in ConcurrentNames :
       \E i \in DOMAIN ConcurrentArguments(name) :
         LET c == [tool |-> name, args |-> ConcurrentArguments(name)[i]]
         IN  /\ call' = c
             /\ Advance(c, <<>>)
  /\ reqs' = <<>>
  /\ UNCHANGED <<variant, enableIntelligence, store, prev, env, proc, second>>

\* `beside` keeps where the first call stood when the second arrived.
CallToolSecond ==
  /\ second.pc = "idle"
  /\ \E name \in ConcurrentNames :
       \E i \in DOMAIN ConcurrentArguments(name) :
         AdvanceSecond([tool |-> name, args |-> ConcurrentArguments(name)[i],
                        beside |-> [pc |-> pc, answered |-> Len(reqs)]], <<>>)
  /\ UNCHANGED <<variant, enableIntelligence, store, pc, call, inflight, reqs, out, prev,
                 env, proc>>

\* The remote API answers the request of the second call.
ReplySecond ==
  /\ second.pc = "await"
  /\ \E outcome \in Outcomes, applied \in BOOLEAN :
       /\ applied => outcome = "2xx" \/ (outcome \in MaybeApplied /\ Mutating(second.inflight))
       /\ outcome = "2xx" => applied
       /\ store' = IF applied THEN RemoteEffect(second.inflight, store) ELSE store
       /\ AdvanceSecond(second.call,
                        Append(second.reqs,
                               [req |-> second.inflight, outcome |-> outcome,
                                data |-> IF outcome = "2xx"
                                           THEN RemoteData(second.inflight, store)
                                           ELSE RemoteErrorBody(outcome)]))
  /\ UNCHANGED <<variant, enableIntelligence, pc, call, inflight, reqs, out, prev, env, proc>>

DeliverSecond ==
  /\ second.pc = "done"
  /\ second' = NoSecond
  /\ prev' = Remember(variant, second.call, second.out)
  /\ UNCHANGED <<variant, enableIntelligence, store, pc, call, inflight, reqs, out, env, proc>>

NextConcurrent ==
  CallToolFirst \/ Reply \/ Deliver \/ CallToolSecond \/ ReplySecond \/ DeliverSecond

SpecConcurrent == InitConcurrent /\ [][NextConcurrent]_vars

(***************************************************************************)
(* The remote store is shared: another user of the Doppler API changes the *)
(* source config while a promotion is under way, before its read is        *)
(* answered or between its read and its write.  (A change made while no    *)
(* call is under way is a different store for the next call to start from.)*)
(***************************************************************************)
SourceConfig == Promotion.sourceConfig

\* The key the other user sets, changes or deletes.
ExternalKeys == {"API_KEY"}

ExternalWrite ==
  /\ pc = "await"
  /\ call.tool = "promoteSecrets"
  /\ \E k \in ExternalKeys, v \in Values \cup {"none"} :
       /\ store' = [store EXCEPT ![SourceConfig] =
                      IF v = "none" THEN Remove(@, {k}) ELSE Upsert(@, k :> v)]
       /\ store' # store
  /\ UNCHANGED <<variant, enableIntelligence, pc, call, inflight, reqs, out, prev, env, proc, second>>

NextShared == CallTool \/ Reply \/ Deliver \/ ExternalWrite

\* The client used directly, against a store that others write too.
SpecShared == InitClient /\ [][NextShared]_vars

(***************************************************************************)
(* The process from its start: the constructor reads the environment, then *)
(* start() connects the transport, then requests are served.               *)
(***************************************************************************)
\* The environments a server may be started in; only the unified server reads
\* DOPPLER_ENABLE_INTELLIGENCE.
ProcessEnvs(v) ==
  {ProcessEnv(t, i) :
     t \in {{}, {""}, {"dp.st.token"}},
     i \in IF v = "unified" THEN {{}, {"true"}, {"false"}} ELSE {{}}}

InitProcess ==
  /\ variant \in Servers
  /\ env \in ProcessEnvs(variant)
  /\ proc = Starting
  /\ enableIntelligence = FALSE
  /\ store \in InitialStores
  /\ pc = "boot"
  /\ call = NoCall
  /\ inflight = NoReq
  /\ reqs = <<>>
  /\ out = NoOut
  /\ prev = NoPrev
  /\ second = NoSecond

\* new Server(): without a token the constructor logs and calls process.exit(1);
\* with one it creates the client and registers the request handlers.
Construct ==
  /\ proc.status = "starting"
  /\ IF TokenMissing(env)
       THEN /\ proc' = Exited(proc, 1)
            /\ UNCHANGED enableIntelligence
       ELSE /\ proc' = [proc EXCEPT !.status = "constructed",
                                     !.handlers = RequestHandlers(variant)]
            /\ enableIntelligence' =
                 ( /\ variant = "unified"
                   /\ "DOPPLER_ENABLE_INTELLIGENCE" \in DOMAIN env
                   /\ env["DOPPLER_ENABLE_INTELLIGENCE"] = "true" )
  /\ UNCHANGED <<variant, store, pc, call, inflight, reqs, out, prev, env, second>>

\* server.start(): the transport is connected and requests can arrive.
Connect ==
  /\ proc.status = "constructed"
  /\ proc' = [proc EXCEPT !.status = "running", !.connected = TRUE]
  /\ pc' = "idle"
  /\ UNCHANGED <<variant, enableIntelligence, store, call, inflight, reqs, out, prev, env, second>>

\* server.start() rejects: the catch handler calls process.exit(1).
ConnectFails ==
  /\ proc.status = "constructed"
  /\ proc' = Exited(proc, 1)
  /\ UNCHANGED <<variant, enableIntelligence, store, pc, call, inflight, reqs, out, prev, env, second>>

\* A request other than tools/call arrives at a handler that is registered.
Serve(request, params) ==
  /\ pc = "idle"
  /\ proc.connected
  /\ request \in proc.handlers
  /\ LET c == [request |-> request, tool |-> "", args |-> params, at |-> store]
     IN  /\ call' = c
         /\ Advance(c, <<>>)
  /\ reqs' = <<>>
  /\ UNCHANGED <<variant, enableIntelligence, store, prev, env, proc, second>>

ListToolsRequest == Serve("tools/list", NoArgs)

ListResourcesRequest == Serve("resources/list", NoArgs)

\* The URIs a ReadResource request may carry: the two valid forms and
\* near misses of them.
ResourceURIs ==
  {URI("doppler://", <<"project", Project>>),
   URI("doppler://", <<"project", Project, "config", "dev">>),
   URI("doppler://", <<"project", Project, "config", "prd">>),
   URI("doppler://", <<"project", Project, "">>),
   URI("doppler://", <<"project", "">>),
   URI("doppler://", <<"project", Project, "config">>),
   URI("doppler://", <<"project", Project, "config", "">>),
   URI("doppler://", <<"project", Project, "config", "dev", "secrets">>),
   URI("doppler://", <<"project", Project, "configs", "dev">>),
   URI("doppler://", <<"project", "", "config", "dev">>),
   URI("doppler://", <<"projects", Project>>),
   URI("doppler://", <<"config", "dev">>),
   URI("doppler://", <<>>),
   URI("DOPPLER://", <<"project", Project>>),
   URI("https://", <<"project", Project>>)}

ReadResourceRequest == \E uri \in ResourceURIs : Serve("resources/read", [uri |-> uri])

NextProcess ==
  \/ Construct
  \/ Connect
  \/ ConnectFails
  \/ ListToolsRequest
  \/ ListResourcesRequest
  \/ ReadResourceRequest
  \/ CallTool
  \/ Reply
  \/ Deliver

\* A server process from its start.
SpecProcess == InitProcess /\ [][NextProcess]_vars

(***************************************************************************)
(* Properties                                                              *)
(***************************************************************************)
Served == pc = "done" /\ variant \in Servers

\* The value is a response envelope {content: [{type: 'text', text}]}.
IsEnvelope(v) ==
  /\ DOMAIN v = {"content"}
  /\ Len(v.content) = 1
  /\ DOMAIN v.content[1] = {"type", "text"}
  /\ v.content[1].type = "text"

ResponseText == out.value.content[1].text

HasErrorMarker == out.do = "return" /\ ResponseText[1] = "Error: "

RemoteFailed == \E i \in DOMAIN reqs : reqs[i].outcome # "2xx"

\* C1: for every tool name, known or unknown, every arguments object and every
\* remote outcome, a CallTool handler hands back a normal response envelope
\* {content: [{type: 'text', text}]}; it never throws or rejects to the host, and
\* when a remote request failed the text signals the failure.
C1_NormalEnvelope ==
  Served =>
    /\ out.do = "return"
    /\ IsEnvelope(out.value)
    /\ RemoteFailed => HasErrorMarker

\* C1 witness: the second request of a promotion timed out, and the unified
\* server answered with an envelope.
C1_Witness ==
  /\ Served
  /\ variant = "unified"
  /\ call.tool = "doppler_promote_secrets"
  /\ Len(reqs) = 2
  /\ reqs[2].outcome = "timeout"
  /\ out.do = "return"
  /\ HasErrorMarker

\* The catalog entry that advertises the called tool, if there is one and the
\* dispatcher serves it.
Advertised ==
  {t \in Range(ListTools(variant, enableIntelligence)) :
     t.name = call.tool /\ HasCase(variant, enableIntelligence, call.tool)}

MissingRequired ==
  \E t \in Advertised :
    t.required # {} /\ (Omitted(call.args) \/ t.required \ DOMAIN call.args # {})

IsValidationError == HasErrorMarker /\ ResponseText[2] = "ZodError"

\* C2: a call of an advertised tool that declares required parameters, with a
\* required parameter missing, is answered with a validation error and no HTTP
\* request is ever issued for it: validation precedes the first remote call.
C2_ValidationFirst ==
  (variant \in Servers /\ pc # "idle" /\ MissingRequired) =>
    /\ pc = "done"
    /\ inflight = NoReq
    /\ reqs = <<>>
    /\ IsValidationError
    /\ store = call.at

\* C2 witness: the enhanced server answered doppler_set_secret without `value`.
C2_Witness ==
  /\ Served
  /\ variant = "enhanced"
  /\ call.tool = "doppler_set_secret"
  /\ ~Omitted(call.args)
  /\ DOMAIN call.args = {"project", "config", "name"}
  /\ MissingRequired
  /\ IsValidationError
  /\ reqs = <<>>

\* The exclusion list of a promoteSecrets call as a set; none given excludes
\* nothing.
Excluded(a) ==
  IF "excludeKeys" \in DOMAIN a THEN {a.excludeKeys[i] : i \in DOMAIN a.excludeKeys}
  ELSE {}

\* S \ E: the pairs of the source whose key is not, letter for letter, in E.
Difference(S, E) == [k \in DOMAIN S \ E |-> S[k]]

\* C3: promoteSecrets writes to the target config exactly the key/value pairs of
\* the source S whose key is not in the exclusion list E (exact, case-sensitive
\* match) and returns count = |S \ E|.
C3_PromotesDifference ==
  (variant = "client" /\ call.tool = "promoteSecrets") =>
    LET S == call.at[call.args.sourceConfig]
        target == call.args.targetConfig
        expected == Difference(S, Excluded(call.args))
    IN  /\ \A i \in DOMAIN reqs :
             reqs[i].req.method = "POST" =>
               /\ reqs[i].req.body.config = target
               /\ reqs[i].req.body.secrets = expected
        /\ inflight.method = "POST" =>
             /\ inflight.body.config = target
             /\ inflight.body.secrets = expected
        /\ store[target] \in {call.at[target], Upsert(call.at[target], expected)}
        /\ (pc = "done" /\ out.do = "return") =>
             /\ out.value.count = Cardinality(DOMAIN expected)
             /\ store[target] = Upsert(call.at[target], expected)

\* C3 witness: with API_KEY, api_key and DATABASE_URL in the source and
\* <<"api_key">> excluded, the promotion returned 2 and wrote API_KEY but not
\* api_key.
C3_Witness ==
  /\ variant = "client"
  /\ pc = "done"
  /\ call.tool = "promoteSecrets"
  /\ Excluded(call.args) = {"api_key"}
  /\ DOMAIN call.at["dev"] = Keys
  /\ out.do = "return"
  /\ out.value.count = 2
  /\ DOMAIN store["prd"] = {"API_KEY", "DATABASE_URL"}

\* C4 as stated: in every variant and configuration the names listTools
\* returns are exactly the names the callTool dispatcher has a case for.
C4_Parity ==
  ToolNames(ListTools(variant, enableIntelligence))
    = DispatcherCases(variant, enableIntelligence)

\* C4 amended: every advertised tool has a dispatcher case, in every variant and
\* configuration; a case for a name that is not advertised exists only in the
\* unified server with intelligence disabled, for its three intelligence tools,
\* and a call of one of them is answered with an error.
C4_AdvertisedHaveCases ==
  LET advertised == ToolNames(ListTools(variant, enableIntelligence))
      cases == DispatcherCases(variant, enableIntelligence)
  IN  /\ advertised \subseteq cases
      /\ cases \ advertised =
           IF variant = "unified" /\ ~enableIntelligence
             THEN ToolNames(UnifiedIntelligenceTools) ELSE {}
      /\ (Served /\ call.tool \in cases \ advertised) =>
           /\ HasErrorMarker
           /\ reqs = <<>>

\* C4 witness: the unified server with intelligence disabled answered a call of
\* doppler_troubleshoot_issue, which it does not advertise, from the tool's own
\* case.
C4_Witness ==
  /\ Served
  /\ variant = "unified"
  /\ ~enableIntelligence
  /\ call.tool = "doppler_troubleshoot_issue"
  /\ call.tool \notin ToolNames(ListTools(variant, enableIntelligence))
  /\ HasErrorMarker
  /\ ResponseText[2] # "Unknown tool: "

IsPromotion == call.tool = "doppler_promote_secrets"

\* C5 as stated: every tool call results in exactly one HTTP request, except
\* promotion, which results in exactly two.
C5_ExactlyOneOrTwo ==
  Served => Len(reqs) = (IF IsPromotion THEN 2 ELSE 1)

\* The tools that stand for a remote operation.
RemoteTools == ToolNames(TOOLS)

IsDryRun == ~Omitted(call.args) /\ Flag(call.args, "dryRun") /\ variant \in {"unified", "enhanced"}

\* The count a promotion reports in its text.
PromotedCount == ResponseText[2]

\* C5 amended: a tool call results in at most one HTTP request, and a promotion
\* in at most two, a GET of the source followed by a POST to the target.  A call
\* that is answered without an error by a remote-operation tool made one request;
\* a promotion makes the second request exactly when the first succeeded and at
\* least one secret is left to promote, and a dry run makes one request only.  A
\* call that fails validation, names a tool the dispatcher does not serve, or
\* names an intelligence tool makes no request.
C5_AtMostOneOrTwo ==
  Served =>
    /\ Len(reqs) <= (IF IsPromotion THEN 2 ELSE 1)
    /\ (call.tool \in RemoteTools /\ ~HasErrorMarker) => Len(reqs) >= 1
    /\ (IsValidationError \/ call.tool \notin RemoteTools) => Len(reqs) = 0
    /\ Len(reqs) = 2 =>
         /\ reqs[1].req.method = "GET"
         /\ reqs[1].req.params.config = call.args.sourceConfig
         /\ reqs[1].outcome = "2xx"
         /\ reqs[2].req.method = "POST"
         /\ reqs[2].req.body.config = call.args.targetConfig
         /\ DOMAIN reqs[2].req.body.secrets # {}
    /\ (IsPromotion /\ ~HasErrorMarker /\ ~IsDryRun) =>
         (Len(reqs) = 2 <=> PromotedCount > 0)
    /\ (IsPromotion /\ IsDryRun) => Len(reqs) <= 1

\* C5 witness: a promotion that found nothing left to promote succeeded with
\* one request.
C5_Witness ==
  /\ Served
  /\ IsPromotion
  /\ ~IsDryRun
  /\ ~HasErrorMarker
  /\ PromotedCount = 0
  /\ Len(reqs) = 1

C7_RetriesRateLimited ==
  Served =>
    \A i \in DOMAIN reqs :
      reqs[i].outcome = "429" =>
        \E j \in DOMAIN reqs : j > i /\ reqs[j].req = reqs[i].req

\* The catalog declares an enumeration for a key, and the call passes a value
\* outside it.
InvalidEnum ==
  /\ ~Omitted(call.args)
  /\ \E t \in Advertised :
       \E k \in DOMAIN t.enum \cap DOMAIN call.args : call.args[k] \notin t.enum[k]

\* C8: the text of a callTool response begins with 'Error: ' if and only if the
\* call failed.  A call of a tool that is not advertised (an unknown tool), a
\* call that misses a required parameter or passes a value outside a declared
\* enumeration, and a call whose remote request failed are answered with the
\* marker; a text with the marker comes from one of these failures or from a
\* request without arguments; and the marker is there exactly when the
\* handler's switch threw.
C8_MarkerIffFailed ==
  Served =>
    LET thrown == Switch(variant, enableIntelligence, call.tool, call.args, reqs).do = "throw"
    IN  /\ out.do = "return"
        /\ HasErrorMarker <=> thrown
        /\ (Advertised = {} \/ MissingRequired \/ InvalidEnum \/ RemoteFailed)
             => HasErrorMarker
        /\ HasErrorMarker =>
             \/ Advertised = {} \/ MissingRequired \/ InvalidEnum \/ RemoteFailed
             \/ Omitted(call.args)

\* C8 witness: a successful doppler_create_service_token call, whose text does
\* not begin with the marker.
C8_Witness ==
  /\ Served
  /\ call.tool = "doppler_create_service_token"
  /\ Len(reqs) = 1
  /\ reqs[1].outcome = "2xx"
  /\ out.do = "return"
  /\ ResponseText[1] = "Service token created successfully:\nToken: "
  /\ ~HasErrorMarker

\* C9: from a config in which key K is absent, two consecutive successful
\* setSecret calls with the same K and the same value return created = true for
\* the first and created = false for the second, and the config then holds one
\* entry for K, with that value.
C9_CreatedThenUpdated ==
  ( /\ variant = "client"
    /\ pc = "done"
    /\ call.tool = "setSecret"
    /\ out.do = "return"
    /\ prev.op = "setSecret"
    /\ prev.args = call.args
    /\ prev.absent ) =>
    /\ prev.created = TRUE
    /\ out.value.created = FALSE
    /\ call.args.name \in DOMAIN store[call.args.config]
    /\ store[call.args.config][call.args.name] = call.args.value
    /\ Cardinality({k \in DOMAIN store[call.args.config] : k = call.args.name}) = 1

\* C9 witness: the second of two such calls has returned.
C9_Witness ==
  /\ variant = "client"
  /\ pc = "done"
  /\ call.tool = "setSecret"
  /\ out.do = "return"
  /\ prev.op = "setSecret"
  /\ prev.args = call.args
  /\ prev.absent
  /\ prev.created
  /\ ~out.value.created

\* The requests of the call so far, answered or in flight, that create a token.
TokenRequests ==
  {r \in {reqs[i].req : i \in DOMAIN reqs} \cup {inflight} :
     r.method = "POST" /\ r.path = "/configs/config/tokens"}

IsTokenCall == call.tool \in {"createServiceToken", "doppler_create_service_token"}

\* C10: createServiceToken invoked without an access level, through the client
\* or through the doppler_create_service_token tool, sends access = 'read';
\* 'read/write' is sent only when the caller passes it; and the tool rejects any
\* other access value before a remote call.
C10_DefaultAccessRead ==
  (IsTokenCall /\ ~Omitted(call.args)) =>
    /\ \A r \in TokenRequests :
         /\ "access" \notin DOMAIN call.args => r.body.access = "read"
         /\ r.body.access = "read/write" =>
              "access" \in DOMAIN call.args /\ call.args.access = "read/write"
         /\ "access" \in DOMAIN call.args => r.body.access = call.args.access
    /\ ( /\ variant \in Servers
         /\ "access" \in DOMAIN call.args
         /\ call.args.access \notin {"read", "read/write"} ) =>
         /\ TokenRequests = {}
         /\ pc = "done"
         /\ reqs = <<>>
         /\ HasErrorMarker
         /\ Advertised # {} => IsValidationError

\* C10 witness: the client's createServiceToken, called without an access
\* level, was answered by the remote API.
C10_Witness ==
  /\ variant = "client"
  /\ pc = "done"
  /\ call.tool = "createServiceToken"
  /\ "access" \notin DOMAIN call.args
  /\ Len(reqs) = 1
  /\ reqs[1].outcome = "2xx"
  /\ reqs[1].req.body.access = "read"
  /\ out.do = "return"
  /\ out.value.access = "read"

V01Parameters ==
  {"project", "config", "name", "value", "secrets", "sourceConfig", "targetConfig",
   "excludeKeys", "access", "page", "perPage"}

\* The unified server in basic mode is serving a core tool called the v0.1 way.
BasicModeV01Call ==
  /\ Served
  /\ variant = "unified"
  /\ ~enableIntelligence
  /\ call.tool \in ToolNames(TOOLS)
  /\ Omitted(call.args) \/ DOMAIN call.args \subseteq V01Parameters

\* What the v0.1 server answers to the same call after the same remote answers.
V01Response == CallToolHandler("v01", FALSE, call.tool, call.args, reqs)

\* C12: with intelligence disabled, each of the 8 core tools called with v0.1
\* parameters only is answered by the unified server with the response text the
\* v0.1 server gives for the same arguments and the same remote answers.
C12_SameTextAsV01 ==
  BasicModeV01Call => out = V01Response

\* The same, for the core tools other than doppler_set_secret.
SameTextAsV01ExceptSetSecret ==
  (BasicModeV01Call /\ call.tool # "doppler_set_secret") => out = V01Response

\* A successful doppler_set_secret in basic mode: the unified server answers
\* with a JSON object holding the sentence the v0.1 server answers with.
SetSecretTextDiffers ==
  /\ BasicModeV01Call
  /\ call.tool = "doppler_set_secret"
  /\ ~HasErrorMarker
  /\ ResponseText[1] = "{"
  /\ V01Response.value.content[1].text[1] = "Secret '"

\* C13: a doppler_promote_secrets call with dryRun = true, on a server whose
\* schema declares dryRun, never issues a write: whatever its other arguments and
\* whatever the remote API answers to the read, no POST or DELETE is issued and
\* the remote secrets, those of the target config included, stay as they were
\* when the call arrived.
C13_DryRunWritesNothing ==
  (variant \in Servers /\ pc # "idle" /\ IsPromotion /\ IsDryRun) =>
    /\ \A i \in DOMAIN reqs : reqs[i].req.method = "GET"
    /\ inflight.method \in {"none", "GET"}
    /\ store = call.at

\* C13 witness: a dry run with valid arguments, a source config that holds
\* secrets and a 2xx answer has ended; the target config is still empty.
C13_Witness ==
  /\ Served
  /\ IsPromotion
  /\ IsDryRun
  /\ Len(reqs) = 1
  /\ reqs[1].outcome = "2xx"
  /\ ~HasErrorMarker
  /\ DOMAIN call.at[call.args.sourceConfig] = Keys
  /\ store[call.args.targetConfig] = EmptyMap

IntelligenceNames == ToolNames(UnifiedIntelligenceTools)

\* C14: in the unified server the three intelligence tools are advertised by
\* listTools and callable exactly when intelligence is enabled.  When it is
\* disabled they are absent from listTools and a call of one of them is answered
\* with the error 'Intelligence features not enabled...' without any remote
\* request; when it is enabled a call of one of them fails only on invalid
\* arguments.  The 8 core tools are advertised in both settings, and a call of
\* one of them fails only on invalid arguments or a failed remote request.
C14_IntelligenceFlag ==
  variant = "unified" =>
    LET advertised == ToolNames(ListTools("unified", enableIntelligence))
    IN  /\ ToolNames(TOOLS) \subseteq advertised
        /\ enableIntelligence => IntelligenceNames \subseteq advertised
        /\ ~enableIntelligence => IntelligenceNames \cap advertised = {}
        /\ (pc # "idle" /\ call.tool \in IntelligenceNames /\ ~enableIntelligence) =>
             /\ pc = "done"
             /\ reqs = <<>>
             /\ out = Text(<<"Error: ",
                  "Intelligence features not enabled. Set DOPPLER_ENABLE_INTELLIGENCE=true">>)
        /\ (Served /\ call.tool \in IntelligenceNames /\ enableIntelligence) =>
             /\ reqs = <<>>
             /\ HasErrorMarker <=> (MissingRequired \/ InvalidEnum)
             /\ HasErrorMarker => IsValidationError
        /\ (Served /\ call.tool \in ToolNames(TOOLS)) =>
             /\ HasErrorMarker => (IsValidationError \/ RemoteFailed)
             /\ (reqs # <<>> /\ ~RemoteFailed) => ~HasErrorMarker

\* C14 witness: with intelligence disabled, doppler_get_security_recommendations
\* called with valid arguments was answered with the error and no request.
C14_Witness ==
  /\ Served
  /\ variant = "unified"
  /\ ~enableIntelligence
  /\ call.tool = "doppler_get_security_recommendations"
  /\ call.args = [environment |-> "production"]
  /\ call.tool \notin ToolNames(ListTools(variant, enableIntelligence))
  /\ reqs = <<>>
  /\ ResponseText[2] = "Intelligence features not enabled. Set DOPPLER_ENABLE_INTELLIGENCE=true"

\* With intelligence enabled the same call is advertised and answered without
\* an error.
IntelligenceEnabledServes ==
  /\ Served
  /\ variant = "unified"
  /\ enableIntelligence
  /\ call.tool = "doppler_get_security_recommendations"
  /\ call.args = [environment |-> "production"]
  /\ call.tool \in ToolNames(ListTools(variant, enableIntelligence))
  /\ ~HasErrorMarker

\* The response as a function of the call's name and arguments and of the
\* remote API's answers during the call, and of nothing else but the fields set
\* at construction.
ResponseOf(name, args, answers) ==
  IF variant = "client" THEN ClientMethod(name, args, answers)
  ELSE Catch(Switch(variant, enableIntelligence, name, args, answers))

ClientAfterSetSecret ==
  /\ variant = "client"
  /\ pc = "done"
  /\ call.tool = "getSecret"
  /\ prev.op = "setSecret"
  /\ prev.args.name = call.args.name
  /\ Len(reqs) = 1
  /\ out.do = "return"
  /\ out.value.value = reqs[1].data.secrets[call.args.name]

\* A request is being served, or was.
Serving == pc # "boot" \/ call # NoCall \/ out # NoOut \/ reqs # <<>> \/ inflight # NoReq

\* The bearer credential is absent from the environment.
NoCredential == "DOPPLER_TOKEN" \notin DOMAIN env \/ env["DOPPLER_TOKEN"] = ""

\* C16: when DOPPLER_TOKEN is absent (or empty) at startup, the process exits
\* with status 1 from the constructor: no request handler is ever registered,
\* the transport is never connected, no listTools or callTool request is ever
\* served and no remote request is issued, so the absence is never answered as a
\* per-call error.
C16_NoTokenNoService ==
  NoCredential =>
    /\ proc.status \in {"starting", "exited"}
    /\ proc.status = "exited" => proc.code = 1
    /\ proc.handlers = {}
    /\ ~proc.connected
    /\ ~Serving

\* C16 witness: started without DOPPLER_TOKEN, the process has exited with
\* status 1.
C16_Witness ==
  /\ "DOPPLER_TOKEN" \notin DOMAIN env
  /\ proc.status = "exited"
  /\ proc.code = 1
  /\ proc.handlers = {}
  /\ ~Serving

\* With a token the server does serve: a listTools request was answered.
TokenPresentServes ==
  /\ ~NoCredential
  /\ pc = "done"
  /\ call.tool = ""
  /\ call.request = "tools/list"
  /\ out = Return([tools |-> ListTools(variant, enableIntelligence)])

IsReadResource == pc # "idle" /\ call # NoCall /\ call.tool = "" /\ call.request = "resources/read"

\* doppler://project/{slug}
IsProjectURI(uri) ==
  /\ uri.scheme = "doppler://"
  /\ Len(uri.path) = 2
  /\ uri.path[1] = "project"
  /\ uri.path[2] # ""

\* doppler://project/{slug}/config/{name}
IsConfigURI(uri) ==
  /\ uri.scheme = "doppler://"
  /\ Len(uri.path) = 4
  /\ uri.path[1] = "project"
  /\ uri.path[2] # ""
  /\ uri.path[3] = "config"
  /\ uri.path[4] # ""

\* The requests of the call so far, answered or in flight.
Issued ==
  [i \in DOMAIN reqs |-> reqs[i].req] \o (IF inflight = NoReq THEN <<>> ELSE <<inflight>>)

\* C17: readResource of doppler://project/{slug} makes exactly one listConfigs
\* call for that slug and, answered 2xx, returns the configs; of
\* doppler://project/{slug}/config/{name} it makes exactly one listSecrets call
\* for that slug and config and returns the secret names; a URI of neither form
\* fails with 'Invalid resource URI format' and no remote request.
C17_ReadResource ==
  IsReadResource =>
    LET uri == call.args.uri
        ended == pc = "done"
        ok == ended /\ reqs[1].outcome = "2xx"
    IN  /\ IsProjectURI(uri) =>
             /\ Issued = <<[method |-> "GET", path |-> "/configs",
                             params |-> [project |-> uri.path[2], per_page |-> 100],
                             body |-> None]>>
             /\ ended => Len(reqs) = 1
             /\ ok => out = Return(Contents(uri, JSONArray(reqs[1].data.configs)))
        /\ IsConfigURI(uri) =>
             /\ Issued = <<[method |-> "GET", path |-> "/configs/config/secrets/names",
                             params |-> [project |-> uri.path[2], config |-> uri.path[4]],
                             body |-> None]>>
             /\ ended => Len(reqs) = 1
             /\ ok => out = Return(Contents(uri, JSONArray(NamesOf(call.at[uri.path[4]]))))
        /\ (~IsProjectURI(uri) /\ ~IsConfigURI(uri)) =>
             /\ ended
             /\ Issued = <<>>
             /\ out = Throw(<<"Invalid resource URI format">>)
        /\ (ended /\ out = Throw(<<"Invalid resource URI format">>)) =>
             (~IsProjectURI(uri) /\ ~IsConfigURI(uri))

\* C17 witness: doppler://project/p1/config/dev was read from a config that
\* holds the three keys, with one listSecrets call, and their names returned.
C17_Witness ==
  /\ IsReadResource
  /\ pc = "done"
  /\ call.args.uri = URI("doppler://", <<"project", "p1", "config", "dev">>)
  /\ DOMAIN call.at["dev"] = Keys
  /\ Len(reqs) = 1
  /\ reqs[1].outcome = "2xx"
  /\ out.do = "return"
  /\ out.value.contents[1].text = JSONArray(KeyOrder)

\* A URI that goes on after a valid form was rejected without a request.
LongerURIRejected ==
  /\ IsReadResource
  /\ pc = "done"
  /\ call.args.uri = URI("doppler://", <<"project", "p1", "config", "dev", "secrets">>)
  /\ reqs = <<>>
  /\ out = Throw(<<"Invalid resource URI format">>)

IsClientPromotion == variant = "client" /\ pc # "idle" /\ call.tool = "promoteSecrets"

\* C18: promoteSecrets issues the POST to the target only after the GET of the
\* source was answered 2xx.  When the read fails, no write is issued, the target
\* is unchanged and the call throws; when the write fails after a successful
\* read, the call throws 'Failed to promote secrets' and returns no count.
C18_ReadThenWrite ==
  IsClientPromotion =>
    /\ \A i \in DOMAIN Issued :
         Issued[i].method = "POST" =>
           /\ i = 2
           /\ reqs[1].req.method = "GET"
           /\ reqs[1].req.params.config = call.args.sourceConfig
           /\ reqs[1].outcome = "2xx"
    /\ (reqs # <<>> /\ reqs[1].outcome # "2xx") =>
         /\ pc = "done"
         /\ Issued = <<reqs[1].req>>
         /\ store = call.at
         /\ out = Throw(<<"Failed to promote secrets">>)
    /\ (Len(reqs) = 2 /\ reqs[2].outcome # "2xx") =>
         /\ pc = "done"
         /\ out = Throw(<<"Failed to promote secrets">>)
    /\ (pc = "done" /\ out.do = "return") =>
         \A i \in DOMAIN reqs : reqs[i].outcome = "2xx"

\* C18 witness: the read succeeded, the write was answered 500, and the call
\* threw.
C18_Witness ==
  /\ IsClientPromotion
  /\ pc = "done"
  /\ Len(reqs) = 2
  /\ reqs[1].outcome = "2xx"
  /\ reqs[2].req.method = "POST"
  /\ reqs[2].outcome = "500"
  /\ out = Throw(<<"Failed to promote secrets">>)

\* The read of a source that holds secrets failed: one request, no write.
ReadFailedNoWrite ==
  /\ IsClientPromotion
  /\ pc = "done"
  /\ DOMAIN call.at[call.args.sourceConfig] = Keys
  /\ Len(reqs) = 1
  /\ reqs[1].outcome = "403"
  /\ store = call.at
  /\ out.do = "throw"

\* What the read step of the promotion was answered: the source snapshot.
Snapshot == reqs[1].data

\* C19: the set promoteSecrets writes to the target is the source snapshot its
\* read step was answered with, minus the exclusions, whatever external changes
\* of the source config happen between the read and the write: the POST carries
\* exactly those pairs, the returned count is their number, and the target then
\* holds them, also when the source has changed meanwhile.
C19_WritesSnapshot ==
  (IsClientPromotion /\ reqs # <<>> /\ reqs[1].outcome = "2xx") =>
    LET expected == Difference(Snapshot, Excluded(call.args))
        target == call.args.targetConfig
    IN  /\ \A i \in DOMAIN Issued :
             Issued[i].method = "POST" =>
               /\ Issued[i].body.config = target
               /\ Issued[i].body.secrets = expected
        /\ (pc = "done" /\ out.do = "return") =>
             /\ out.value.count = Cardinality(DOMAIN expected)
             /\ store[target] = Upsert(call.at[target], expected)

\* C19 witness: the source changed between the read and the write, and the
\* promotion returned: the target holds the snapshot minus the exclusions, which
\* is not the current source minus the exclusions.
C19_Witness ==
  /\ IsClientPromotion
  /\ pc = "done"
  /\ out.do = "return"
  /\ Len(reqs) = 2
  /\ store[call.args.sourceConfig] # Snapshot
  /\ store[call.args.targetConfig]
       = Upsert(call.at[call.args.targetConfig], Difference(Snapshot, Excluded(call.args)))
  /\ store[call.args.targetConfig]
       # Upsert(call.at[call.args.targetConfig],
                Difference(store[call.args.sourceConfig], Excluded(call.args)))

\* The object a dry run reports, and the count in it.
DryRunReported == ResponseText[2]

DryRunTotal ==
  IF variant = "unified" THEN DryRunReported.total ELSE DryRunReported.total_count

\* What a real run with the same arguments would write from the same source:
\* the client's filter with the handler's final exclusion list.
RealRunWouldWrite ==
  LET d == ZodParse(PromoteSecretsSchema(variant), call.args).data
      final == IF variant = "unified" THEN UnifiedFinalExcludeKeys(d)
               ELSE EnhancedFinalExcludeKeys(d)
  IN  secretsToPromote([excludeKeys |-> final], call.at[d.sourceConfig])

DryRunSucceeded == Served /\ IsPromotion /\ IsDryRun /\ ~HasErrorMarker

\* C20: for the same arguments and an unchanged source config, a dry run lists
\* in secrets_to_promote exactly the secret names a real run would write to the
\* target, and its total is the count the real run would report.
C20_DryRunMatchesRealRun ==
  DryRunSucceeded =>
    /\ Range(DryRunReported.secrets_to_promote) = DOMAIN RealRunWouldWrite
    /\ DryRunTotal = Cardinality(DOMAIN RealRunWouldWrite)

\* What the dry run lists instead: the indices of the array of source names,
\* none of which the exclusion list removes.
DryRunListsIndices ==
  DryRunSucceeded =>
    /\ DryRunReported.secrets_to_promote
         = ObjectKeys(NamesOf(call.at[call.args.sourceConfig]))
    /\ DryRunTotal = Cardinality(DOMAIN call.at[call.args.sourceConfig])

\* A dry run that excludes api_key from a source holding the three keys reports
\* three entries, none of them a secret name, where the real run writes two.
DryRunDiverges ==
  /\ DryRunSucceeded
  /\ DOMAIN call.at[call.args.sourceConfig] = Keys
  /\ DOMAIN RealRunWouldWrite = {"API_KEY", "DATABASE_URL"}
  /\ DryRunReported.secrets_to_promote = <<"0", "1", "2">>
  /\ DryRunTotal = 3

IsResourceRequest ==
  /\ pc # "idle"
  /\ call # NoCall
  /\ call.tool = ""
  /\ call.request \in {"resources/list", "resources/read"}

\* C21: a failure of the remote call behind a resource request (listResources,
\* readResource) never reaches the host as an exception: the handler returns.
C21_ResourcesNeverThrow ==
  (IsResourceRequest /\ pc = "done" /\ RemoteFailed) => out.do = "return"

\* The part that holds: listResources returns whatever the remote API answers.
ListResourcesNeverThrows ==
  (IsResourceRequest /\ pc = "done" /\ call.request = "resources/list") =>
    out.do = "return"

\* readResource of a valid URI whose remote call was answered 500: the client's
\* error is thrown on to the host.
ReadResourceThrows ==
  /\ IsResourceRequest
  /\ pc = "done"
  /\ call.request = "resources/read"
  /\ call.args.uri = URI("doppler://", <<"project", "p1">>)
  /\ Len(reqs) = 1
  /\ reqs[1].outcome = "500"
  /\ out = Throw(<<"Failed to list configs for project ", "p1">>)

\* The summary of a failed operation: it names the operation, with the
\* arguments the method puts in it, and nothing of the failure.
FailureSummary(tool, r) ==
  CASE r.path = "/projects" -> <<"Failed to list projects">>
    [] r.path = "/configs" -> <<"Failed to list configs for project ", r.params.project>>
    [] r.path = "/configs/config/secrets/names" ->
         <<"Failed to list secrets for ", r.params.project, "/", r.params.config>>
    [] r.path = "/configs/config/secrets/download" -> <<"Failed to promote secrets">>
    [] r.path = "/configs/config/secrets" /\ r.method = "GET" ->
         <<"Failed to get secret ", r.params.name>>
    [] r.path = "/configs/config/secrets" /\ r.method = "DELETE" ->
         <<"Failed to delete secrets">>
    [] r.path = "/configs/config/secrets" /\ r.method = "POST" ->
         IF tool \in {"promoteSecrets", "doppler_promote_secrets"}
           THEN <<"Failed to promote secrets">>
           ELSE <<"Failed to set secret ", CHOOSE k \in DOMAIN r.body.secrets : TRUE>>
    [] r.path = "/configs/config/tokens" -> <<"Failed to create service token">>
    [] r.path = "/logs" -> <<"Failed to get activity logs">>

\* A call whose remote request failed has ended (validateConnection reports a
\* failure as `false`, not as an error).
EndedInRemoteFailure ==
  /\ pc = "done"
  /\ RemoteFailed
  /\ call.tool # "validateConnection"

\* C22: the error text handed to the caller for a failed remote call is a fixed
\* summary naming the failed operation; it is the same for every status code
\* and body of the failure (401, 403, 429, 500, timeout, broken connection).
C22_FixedSummary ==
  EndedInRemoteFailure =>
    LET summary == FailureSummary(call.tool, reqs[Len(reqs)].req)
    IN  IF variant = "client" THEN out = Throw(summary)
        ELSE out = Text(<<"Error: ">> \o summary)

\* C22 witness: doppler_get_secret was answered 401 with a body, and the text is
\* the summary alone.
C22_Witness ==
  /\ Served
  /\ call.tool = "doppler_get_secret"
  /\ Len(reqs) = 1
  /\ reqs[1].outcome = "401"
  /\ reqs[1].data.messages = <<"Invalid Auth token">>
  /\ ResponseText = <<"Error: ", "Failed to get secret ", "API_KEY">>

\* The dispatcher rejects the arguments in validation, before any request.
RejectsArguments(name, args) ==
  LET step == Switch(variant, enableIntelligence, name, args, <<>>)
  IN  step.do = "throw" /\ step.message[1] = "ZodError"

OutsideEnumerationRejected ==
  /\ Served
  /\ call.tool = "doppler_create_service_token"
  /\ InvalidEnum
  /\ ~MissingRequired
  /\ IsValidationError

\* The call names an advertised tool whose catalog entry requires nothing.
NothingRequired == Advertised # {} /\ \A t \in Advertised : t.required = {}

\* C24: a tool whose catalog entry declares no required parameter can be called
\* with the arguments object omitted altogether: doppler_list_projects and
\* doppler_get_activity_logs then succeed (the remote API answering 2xx), the
\* latter asking for page 1 with 20 items per page.
C24_OmittedArgumentsSucceed ==
  (Served /\ NothingRequired /\ Omitted(call.args)) =>
    /\ ~IsValidationError
    /\ Len(reqs) = 1
    /\ reqs[1].outcome = "2xx" => ~HasErrorMarker
    /\ call.tool = "doppler_get_activity_logs" =>
         (reqs[1].req.params.page = 1 /\ reqs[1].req.params.per_page = 20)

\* The same call with an empty arguments object does succeed, with the defaults.
EmptyArgumentsSucceed ==
  (Served /\ NothingRequired /\ call.args = EmptyObject) =>
    /\ ~IsValidationError
    /\ Len(reqs) = 1
    /\ reqs[1].outcome = "2xx" => ~HasErrorMarker
    /\ call.tool = "doppler_get_activity_logs" =>
         (reqs[1].req.params.page = 1 /\ reqs[1].req.params.per_page = 20)

\* doppler_get_activity_logs without arguments on the v0.1 server: a validation
\* error and no request.
OmittedArgumentsRejected ==
  /\ Served
  /\ variant = "v01"
  /\ call.tool = "doppler_get_activity_logs"
  /\ Omitted(call.args)
  /\ NothingRequired
  /\ IsValidationError
  /\ reqs = <<>>

\* doppler_list_projects without arguments on the v0.1 server succeeds.
ListProjectsWithoutArguments ==
  /\ Served
  /\ variant = "v01"
  /\ call.tool = "doppler_list_projects"
  /\ Omitted(call.args)
  /\ Len(reqs) = 1
  /\ ~HasErrorMarker

\* The source keys the promotion keeps: those of the answer to its read that
\* are not, letter for letter, in the exclusion list.
FilteredKeys == DOMAIN reqs[1].data \ Excluded(call.args)

\* A write request is among the requests of the call.
WriteIssued == \E i \in DOMAIN Issued : Issued[i].method = "POST"

\* C25: when every source key is excluded, or the source config is empty,
\* promoteSecrets issues no write request to the target and returns count 0 as
\* a success; a write request is issued if and only if the filtered set is
\* non-empty.
C25_WriteIffNonEmpty ==
  (IsClientPromotion /\ reqs # <<>> /\ reqs[1].outcome = "2xx") =>
    /\ WriteIssued <=> FilteredKeys # {}
    /\ FilteredKeys = {} =>
         /\ pc = "done"
         /\ Issued = <<reqs[1].req>>
         /\ out = Return([count |-> 0])
         /\ store = call.at

\* C25 witness: the source holds secrets, all of them excluded: one read, no
\* write, count 0.
C25_Witness ==
  /\ IsClientPromotion
  /\ pc = "done"
  /\ Len(reqs) = 1
  /\ reqs[1].outcome = "2xx"
  /\ DOMAIN reqs[1].data = {"API_KEY", "DATABASE_URL"}
  /\ Excluded(call.args) = {"API_KEY", "DATABASE_URL"}
  /\ ~WriteIssued
  /\ out = Return([count |-> 0])

\* The source config is empty and nothing is excluded: no write, count 0.
EmptySourceNoWrite ==
  /\ IsClientPromotion
  /\ pc = "done"
  /\ Len(reqs) = 1
  /\ reqs[1].outcome = "2xx"
  /\ DOMAIN reqs[1].data = {}
  /\ Excluded(call.args) = {}
  /\ ~WriteIssued
  /\ out = Return([count |-> 0])

\* One key survives the filter: the write is in flight.
OneKeyWritten ==
  /\ IsClientPromotion
  /\ pc = "await"
  /\ Len(reqs) = 1
  /\ FilteredKeys = {"api_key"}
  /\ inflight.method = "POST"
  /\ DOMAIN inflight.body.secrets = {"api_key"}

\* The source and target configs of the promotion under way, as they were when
\* the call was made and as they are now.
SourceAtCall == call.at[call.args.sourceConfig]
TargetAtCall == call.at[call.args.targetConfig]
TargetNow == store[call.args.targetConfig]

\* C26: promotion only upserts.  Its write request goes to the target and
\* contains no key of the exclusion list and no key absent from the source, so
\* the keys already in the target that are excluded or absent from the source
\* keep their values; no key of the target is deleted and the source config is
\* not changed.
C26_OnlyUpserts ==
  IsClientPromotion =>
    /\ \A i \in DOMAIN Issued :
         Issued[i].method = "POST" =>
           /\ Issued[i].body.config = call.args.targetConfig
           /\ DOMAIN Issued[i].body.secrets \cap Excluded(call.args) = {}
           /\ DOMAIN Issued[i].body.secrets \subseteq DOMAIN SourceAtCall
    /\ store[call.args.sourceConfig] = SourceAtCall
    /\ DOMAIN TargetAtCall \subseteq DOMAIN TargetNow
    /\ \A k \in DOMAIN TargetAtCall :
         (k \in Excluded(call.args) \/ k \notin DOMAIN SourceAtCall) =>
           TargetNow[k] = TargetAtCall[k]

\* C26 witness: the target held an excluded key whose value differs from the
\* source's; the promotion wrote another key and the excluded one kept its
\* value.
C26_Witness ==
  /\ IsClientPromotion
  /\ pc = "done"
  /\ out.do = "return"
  /\ Len(reqs) = 2
  /\ "API_KEY" \in Excluded(call.args)
  /\ "API_KEY" \in DOMAIN SourceAtCall \cap DOMAIN TargetAtCall
  /\ TargetAtCall["API_KEY"] # SourceAtCall["API_KEY"]
  /\ TargetNow # TargetAtCall
  /\ TargetNow["API_KEY"] = TargetAtCall["API_KEY"]

\* The target held a key that the source no longer has; the promotion wrote
\* the others and that key is still there.
AbsentFromSourceKept ==
  /\ IsClientPromotion
  /\ pc = "done"
  /\ out.do = "return"
  /\ Len(reqs) = 2
  /\ "API_KEY" \in DOMAIN TargetAtCall \ DOMAIN SourceAtCall
  /\ "API_KEY" \in DOMAIN TargetNow

\* A doppler_set_secret call with valid arguments on a server that offers the
\* advisory validations.
IsAdvisorySetSecret ==
  /\ variant \in {"unified", "enhanced"}
  /\ pc # "idle"
  /\ call.tool = "doppler_set_secret"
  /\ ~Omitted(call.args)
  /\ {"project", "config", "name", "value"} \subseteq DOMAIN call.args

\* The key the server puts the success message under.
MessageField == IF variant = "unified" THEN "message" ELSE "result"

\* C27: in the unified and enhanced servers validateSecurity and checkNaming are
\* advisory only: doppler_set_secret with valid arguments issues the remote
\* write exactly once whether or not the validation reports issues, and the
\* validation outcome only adds a field to the response.
C27_ValidationAdvisory ==
  IsAdvisorySetSecret =>
    /\ Len(Issued) = 1
    /\ Issued[1].method = "POST"
    /\ Issued[1].body = [project |-> call.args.project, config |-> call.args.config,
                         secrets |-> (call.args.name :> call.args.value)]
    /\ (pc = "done" /\ reqs[1].outcome = "2xx") =>
         /\ out.do = "return"
         /\ ResponseText[1] = "{"
         /\ DOMAIN ResponseText[2] \ {"validation"} = {MessageField}
         /\ ResponseText[2][MessageField]
              = SetSecretMessage(call.args,
                                 [created |-> CreatedFlag(reqs[1].data, call.args.name)])
         /\ store[call.args.config][call.args.name] = call.args.value

\* C27 witness: the unified server's security validation objected to the value
\* and the value was written all the same.
C27_Witness ==
  /\ IsAdvisorySetSecret
  /\ variant = "unified"
  /\ pc = "done"
  /\ reqs[1].outcome = "2xx"
  /\ "validateSecurity" \in DOMAIN call.args
  /\ ~ResponseText[2].validation.security.passed
  /\ store[call.args.config][call.args.name] = "test"

\* The enhanced server's naming check objected to the name and the secret was
\* written all the same.
NamingObjectionWritten ==
  /\ IsAdvisorySetSecret
  /\ variant = "enhanced"
  /\ pc = "done"
  /\ reqs[1].outcome = "2xx"
  /\ "checkNaming" \in DOMAIN call.args
  /\ ~ResponseText[2].validation.naming_validation.compliant
  /\ call.args.name \in DOMAIN store[call.args.config]

\* The validations were asked for and passed: the same write, the same message.
ValidationPassedWritten ==
  /\ IsAdvisorySetSecret
  /\ variant = "unified"
  /\ pc = "done"
  /\ reqs[1].outcome = "2xx"
  /\ "validateSecurity" \in DOMAIN call.args
  /\ ResponseText[2].validation.security.passed

\* A ListResources request that has been answered.
ListResourcesDone ==
  IsResourceRequest /\ call.request = "resources/list" /\ pc = "done"

\* C28: listResources never fails.  When listing the projects fails remotely it
\* returns an empty resource list instead of an error; otherwise it returns
\* exactly one resource per remote project, in the remote order, with uri
\* doppler://project/{slug}; and every uri it returns is accepted by
\* readResource, which asks for the configs of that project.
C28_ListResources ==
  ListResourcesDone =>
    /\ out.do = "return"
    /\ Len(reqs) = 1
    /\ reqs[1].outcome # "2xx" => out.value = [resources |-> <<>>]
    /\ reqs[1].outcome = "2xx" =>
         LET projects == reqs[1].data.projects
             resources == out.value.resources
         IN  /\ Len(resources) = Len(projects)
             /\ \A i \in DOMAIN projects :
                  /\ resources[i].uri = URI("doppler://", <<"project", projects[i].slug>>)
                  /\ resources[i].name = projects[i].name
                  /\ ReadResourceHandler(resources[i].uri, <<>>)
                       = Request("GET", "/configs",
                                 [project |-> projects[i].slug, per_page |-> 100], None)

\* C28 witness: two remote projects, two resources in the same order.
C28_Witness ==
  /\ ListResourcesDone
  /\ reqs[1].outcome = "2xx"
  /\ Len(out.value.resources) = 2
  /\ out.value.resources[1].uri = URI("doppler://", <<"project", "p2">>)
  /\ out.value.resources[2].uri = URI("doppler://", <<"project", "p1">>)

\* Listing the projects was refused: an empty list, not an error.
ListResourcesEmptyOnFailure ==
  /\ ListResourcesDone
  /\ reqs[1].outcome = "401"
  /\ out = Return([resources |-> <<>>])

PromotionsInterleaved ==
  /\ pc = "await"
  /\ second.pc = "await"
  /\ Len(reqs) = 1
  /\ Len(second.reqs) = 1
  /\ second.call.beside = [pc |-> "await", answered |-> 0]
  /\ inflight.method = "POST"
  /\ second.inflight.method = "POST"

\* A tool call at a server that has not been answered yet.
CallPending == variant \in Servers /\ pc = "await"

\* C30: every callTool request eventually produces exactly one response.  Given
\* that every remote request eventually succeeds, fails or hits the HTTP
\* client's timeout, no call stays pending forever, the response produced is
\* sent, and sending it ends the call: no call is answered twice.
C30_EventuallyOneResponse ==
  /\ CallPending ~> Served
  /\ Served ~> (pc = "idle")
  /\ [][Served => (pc' = "idle" /\ call' = NoCall /\ out' = NoOut)]_vars
  /\ [][(pc' = "done" /\ variant \in Servers) =>
          (pc \in {"idle", "await"} /\ out'.do \in {"return", "throw"})]_vars

\* C30 witness: the second request of a call hit the timeout and the call has
\* produced its response.
C30_Witness ==
  /\ Served
  /\ Len(reqs) = 2
  /\ reqs[1].outcome = "2xx"
  /\ reqs[2].outcome = "timeout"
  /\ out.do = "return"
  /\ HasErrorMarker

====
